---- MODULE Spec2Model ----
(***************************************************************************)
(* pocket-asi: an LLM server driving a sandboxed shell client over a       *)
(* NUL-framed JSON protocol.  The module models                            *)
(*   - the message taxonomy and trial parsing   (client/typedefs.py,       *)
(*     client/common.py expect),                                           *)
(*   - the framed transport                     (client/common.py),        *)
(*   - the history compactor                    (server/llama_chat.py),    *)
(*   - the connection state machines            (server/server.py,         *)
(*     client/client.py),                                                  *)
(*   - the sandbox executor                     (client/shell.py).         *)
(***************************************************************************)
EXTENDS Integers, Sequences, FiniteSets, TLC

(***************************************************************************)
(* Optional values (Python's None / a value).                              *)
(***************************************************************************)
None == <<>>

Some(x) == <<x>>

(***************************************************************************)
(* Message taxonomy.  A Python object is a record with its class in cls;   *)
(* a JSON document is the record of its fields alone.                      *)
(***************************************************************************)
ShellCommand(comment, command) ==
    [cls |-> "ShellCommand", comment |-> comment, command |-> command]

FileReadCommand(comment, file) ==
    [cls |-> "FileReadCommand", comment |-> comment, file |-> file]

FileWriteCommand(comment, file, content) ==
    [cls |-> "FileWriteCommand", comment |-> comment, file |-> file,
     content |-> content]

\* base is the BaseResult envelope [config, system, goal].
ShellResult(base, command, prompt, stdout, stderr, exit_code) ==
    [cls |-> "ShellResult", config |-> base.config, system |-> base.system,
     goal |-> base.goal, command |-> command, prompt |-> prompt,
     stdout |-> stdout, stderr |-> stderr, exit_code |-> exit_code]

FileWriteResult(base, command, file, error, written) ==
    [cls |-> "FileWriteResult", config |-> base.config, system |-> base.system,
     goal |-> base.goal, command |-> command, file |-> file,
     error |-> error, written |-> written]

FileReadResult(base, command, file, content, error) ==
    [cls |-> "FileReadResult", config |-> base.config, system |-> base.system,
     goal |-> base.goal, command |-> command, file |-> file,
     content |-> content, error |-> error]

\* Union members in declaration order.
AnyCommand == <<"ShellCommand", "FileReadCommand", "FileWriteCommand">>

AnyResult == <<"ShellResult", "FileReadResult", "FileWriteResult">>

\* Control messages: empty objects with a discriminator.
SynMessage == [cls |-> "SynMessage", kind |-> "syn"]

AckMessage == [cls |-> "AckMessage", kind |-> "ack"]

FinMessage == [cls |-> "FinMessage", kind |-> "fin"]

NopMessage == [cls |-> "NopMessage", kind |-> "nop"]

AnyServerRuntimeMessage == AnyCommand \o <<"FinMessage">>

IsResultCls(cls) == cls \in {"ShellResult", "FileReadResult", "FileWriteResult"}

(***************************************************************************)
(* Serialisation: model_dump_json writes every field (a None as null), the *)
(* nested command of a Result included; the class is not written.          *)
(***************************************************************************)
DumpFields(m) == [k \in DOMAIN m \ {"cls"} |-> m[k]]

model_dump_json(m) ==
    IF IsResultCls(m.cls)
    THEN [k \in DOMAIN m \ {"cls"} |->
             IF k = "command" THEN DumpFields(m.command) ELSE m[k]]
    ELSE DumpFields(m)

(***************************************************************************)
(* Validation of a JSON document as one class: every field without a       *)
(* default must be present, unknown fields are ignored, a missing field    *)
(* with a default takes it.  None is a ValidationError.                    *)
(***************************************************************************)
HasFields(j, req) == req \subseteq DOMAIN j

Field(j, k, default) == IF k \in DOMAIN j THEN j[k] ELSE default

ValidateControl(j, m) ==
    IF HasFields(j, {"kind"}) /\ j.kind = m.kind THEN Some(m) ELSE None

ValidateShellCommand(j) ==
    IF HasFields(j, {"command"})
    THEN Some(ShellCommand(Field(j, "comment", None), j.command))
    ELSE None

ValidateFileReadCommand(j) ==
    IF HasFields(j, {"file"})
    THEN Some(FileReadCommand(Field(j, "comment", None), j.file))
    ELSE None

ValidateFileWriteCommand(j) ==
    IF HasFields(j, {"file", "content"})
    THEN Some(FileWriteCommand(Field(j, "comment", None), j.file, j.content))
    ELSE None

BaseOf(j) == [config |-> j.config, system |-> j.system, goal |-> j.goal]

BaseFields == {"config", "system", "goal"}

ValidateShellResult(j) ==
    IF /\ HasFields(j, BaseFields \cup
                       {"command", "prompt", "stdout", "stderr", "exit_code"})
       /\ ValidateShellCommand(j.command) # None
    THEN Some(ShellResult(BaseOf(j), ValidateShellCommand(j.command)[1],
                          j.prompt, j.stdout, j.stderr, j.exit_code))
    ELSE None

ValidateFileReadResult(j) ==
    IF /\ HasFields(j, BaseFields \cup {"command", "file"})
       /\ ValidateFileReadCommand(j.command) # None
    THEN Some(FileReadResult(BaseOf(j), ValidateFileReadCommand(j.command)[1],
                             j.file, Field(j, "content", None),
                             Field(j, "error", None)))
    ELSE None

ValidateFileWriteResult(j) ==
    IF /\ HasFields(j, BaseFields \cup {"command", "file"})
       /\ ValidateFileWriteCommand(j.command) # None
    THEN Some(FileWriteResult(BaseOf(j), ValidateFileWriteCommand(j.command)[1],
                              j.file, Field(j, "error", None),
                              Field(j, "written", None)))
    ELSE None

determine(what, as_a) ==
    CASE as_a = "ShellCommand" -> ValidateShellCommand(what)
      [] as_a = "FileReadCommand" -> ValidateFileReadCommand(what)
      [] as_a = "FileWriteCommand" -> ValidateFileWriteCommand(what)
      [] as_a = "ShellResult" -> ValidateShellResult(what)
      [] as_a = "FileReadResult" -> ValidateFileReadResult(what)
      [] as_a = "FileWriteResult" -> ValidateFileWriteResult(what)
      [] as_a = "SynMessage" -> ValidateControl(what, SynMessage)
      [] as_a = "AckMessage" -> ValidateControl(what, AckMessage)
      [] as_a = "FinMessage" -> ValidateControl(what, FinMessage)
      [] as_a = "NopMessage" -> ValidateControl(what, NopMessage)

\* expect: the members of a union are tried in order and the first that
\* validates is kept; None is the ValueError raised when none does.  A
\* single class is the one-member union.
RECURSIVE expect(_, _)
expect(what, as_a) ==
    IF as_a = <<>> THEN None
    ELSE LET r == determine(what, Head(as_a))
         IN IF r # None THEN r ELSE expect(what, Tail(as_a))

SeqsUpTo(S, n) == UNION {[1..k -> S] : k \in 0..n}

\* h without its first k elements.
Suffix(h, k) == SubSeq(h, k + 1, Len(h))

(***************************************************************************)
(* Bounds of the model.                                                    *)
(***************************************************************************)
\* The context window of the model under test (LLAMA_N_CTX).
n_ctx == 520

\* Tokens of the one output line "huge", a command with huge output.
HugeTokens == 6

\* Longest history drawn or built in SpecChat.
MaxHist == 3

\* Longest command list one generation returns.
MaxBatch == 2

\* Connections made in one run.
MaxConns == 2

\* SpecWire: frames written to the socket, and bytes of a frame.
MaxFrames == 3

MaxFrameLen == 2

\* SpecShell: bash processes started, and nested _get_prompt calls.
MaxSpawn == 3

MaxDepth == 2

\* SpecReaders: lines the reader threads put, and Results returned.
MaxLines == 3

MaxResults == 2

LLAMA_TOKEN_BUFFER == 512

(***************************************************************************)
(* The client-side values the model draws from.                            *)
(***************************************************************************)
\* BaseResult snapshots: the three files missing, or all three present.
BaseMissing == [config |-> None, system |-> None, goal |-> None]

BasePresent ==
    [config |-> Some("custom"), system |-> Some("sys"), goal |-> Some("goal")]

\* /app/system.md and /app/goal exist and are empty.
BaseEmpty == [config |-> None, system |-> Some(""), goal |-> Some("")]

Bases == {BaseMissing, BasePresent}

\* The files _get_config reads.
FilePaths == {"/app/system.md", "/app/goal", "/app/config.json"}

\* str.strip() on the texts the model writes.
strip(str) ==
    CASE str = "g2\n" -> "g2"
      [] str = "g1 " -> "g1"
      [] OTHER -> str

\* LlamaClientConfig.model_validate_json: None is the ValidationError.
model_validate_json(str) == IF str = "{}" THEN Some("custom") ELSE None

\* _get_config and _get_base: the three files as they are now.
_get_config(fs) ==
    [system |-> fs["/app/system.md"],
     goal |-> IF fs["/app/goal"] = None THEN None
              ELSE Some(strip(fs["/app/goal"][1])),
     config |-> IF fs["/app/config.json"] = None THEN None
                ELSE model_validate_json(fs["/app/config.json"][1])]

LlamaClientConfig == "default"

DEFAULT_SYSTEM_MUTABLE == "Write your system prompt to /app/system.md."

LLAMA_DEFAULT_GOAL == "default goal"

\* A parsed PS1 prompt with exit code c.
PromptOf(c) ==
    [prompt |-> IF c = 0 THEN "0 u@h:/ $ " ELSE "1 u@h:/ $ ",
     exit_code |-> c, user |-> "u", host |-> "h", cwd |-> "/",
     usertype |-> "user"]

\* An output line: (timestamp, text).
OutputLine(t, text) == <<t, text>>

(***************************************************************************)
(* History compactor (LlamaChat).  The object is the record                *)
(* [history, config, system_mutable, goal]; system_mutable is None until   *)
(* the first append_command sets it.                                       *)
(***************************************************************************)
LlamaChatInit ==
    [history |-> <<>>, config |-> LlamaClientConfig,
     system_mutable |-> None, goal |-> LLAMA_DEFAULT_GOAL]

\* Python's "x or default" on an optional string: None and "" are falsy.
OrDefault(opt, default) ==
    IF opt = None THEN default
    ELSE IF opt[1] = "" THEN default ELSE opt[1]

\* Variant of append_command: values already set are kept.
append_command_keep(self, result) ==
    [history |-> Append(self.history, result),
     config |-> IF self.config # LlamaClientConfig THEN self.config
                ELSE IF result.config = None THEN LlamaClientConfig
                ELSE result.config[1],
     system_mutable |-> IF self.system_mutable # None THEN self.system_mutable
                        ELSE Some(OrDefault(result.system,
                                            DEFAULT_SYSTEM_MUTABLE)),
     goal |-> IF self.goal # LLAMA_DEFAULT_GOAL THEN self.goal
              ELSE OrDefault(result.goal, LLAMA_DEFAULT_GOAL)]

append_command(self, result) ==
    [history |-> Append(self.history, result),
     config |-> IF result.config = None THEN LlamaClientConfig
                ELSE result.config[1],
     system_mutable |-> Some(OrDefault(result.system, DEFAULT_SYSTEM_MUTABLE)),
     goal |-> OrDefault(result.goal, LLAMA_DEFAULT_GOAL)]

RECURSIVE append_commands(_, _)
append_commands(self, results) ==
    IF results = <<>> THEN self
    ELSE append_commands(append_command(self, Head(results)), Tail(results))

\* The system message; read only after system_mutable is set.
system(self) ==
    [role |-> "system",
     content |-> [goal |-> self.goal, system |-> "system.md",
                  system_mutable |-> self.system_mutable[1]]]

\* ''.join of the texts of output lines, kept as the sequence of texts.
JoinTexts(lines) == [i \in 1..Len(lines) |-> lines[i][2]]

_simplify(result) ==
    CASE result.cls = "ShellResult" ->
           [command |-> result.command.command,
            prompt |-> result.prompt.prompt,
            stdout |-> JoinTexts(result.stdout),
            stderr |-> JoinTexts(result.stderr),
            exit_code |-> result.exit_code]
      [] result.cls = "FileReadResult" ->
           [file |-> result.file, content |-> result.content,
            error |-> result.error]
      [] result.cls = "FileWriteResult" ->
           [file |-> result.file, content |-> Some(result.command.content),
            written |-> result.written, error |-> result.error]

\* Python truthiness of a dumped field: '', None and 0 are dropped.
Truthy(k, v) ==
    CASE k = "exit_code" -> v # 0
      [] k \in {"command", "prompt", "file"} -> v # ""
      [] k \in {"stdout", "stderr"} -> v # <<>>
      [] k \in {"content", "error"} -> v # None /\ v # Some("")
      [] k = "written" -> v # None /\ v # Some(0)

_from_result(result) ==
    LET simple == _simplify(result)
    IN << [role |-> "assistant", content |-> DumpFields(result.command)],
          [role |-> "user",
           content |-> [k \in {f \in DOMAIN simple : Truthy(f, simple[f])}
                           |-> simple[k]]] >>

RECURSIVE _from_commands(_)
_from_commands(results) ==
    IF results = <<>> THEN <<>>
    ELSE _from_result(Head(results)) \o _from_commands(Tail(results))

\* The tokenizer of the underlying model on the model's vocabulary.
StrTokens(s) == IF s = "" THEN 0 ELSE IF s = "huge" THEN HugeTokens ELSE 1

RECURSIVE SumTokens(_)
SumTokens(texts) ==
    IF texts = <<>> THEN 0
    ELSE StrTokens(Head(texts)) + SumTokens(Tail(texts))

MsgTokens(m) ==
    CASE m.role = "system" ->
           1 + StrTokens(m.content.goal) + StrTokens(m.content.system_mutable)
      [] m.role = "assistant" -> 1
      [] m.role = "user" ->
           1 + SumTokens(Field(m.content, "stdout", <<>>))
             + SumTokens(Field(m.content, "stderr", <<>>))
             + (IF "content" \in DOMAIN m.content
                THEN StrTokens(m.content.content[1]) ELSE 0)

RECURSIVE tokenize(_)
tokenize(messages) ==
    IF messages = <<>> THEN 0
    ELSE MsgTokens(Head(messages)) + tokenize(Tail(messages))

\* _get_prompt: drop the oldest entry until the prompt fits; the ValueError
\* raised once the history is empty is prompt = None.  The result carries
\* the object as the call leaves it.
RECURSIVE get_prompt_loop(_, _)
get_prompt_loop(self, removed) ==
    IF self.history = <<>>
    THEN [self |-> self, prompt |-> None, removed |-> removed]
    ELSE LET p == <<system(self)>> \o _from_commands(self.history)
         IN IF tokenize(p) <= n_ctx - LLAMA_TOKEN_BUFFER
            THEN [self |-> self, prompt |-> Some(p), removed |-> removed]
            ELSE get_prompt_loop([self EXCEPT !.history = Tail(self.history)],
                                 removed + 1)

\* Variant of _get_prompt: the newest entry is dropped instead of the oldest.
RECURSIVE get_prompt_loop_newest(_, _)
get_prompt_loop_newest(self, removed) ==
    IF self.history = <<>>
    THEN [self |-> self, prompt |-> None, removed |-> removed]
    ELSE LET p == <<system(self)>> \o _from_commands(self.history)
         IN IF tokenize(p) <= n_ctx - LLAMA_TOKEN_BUFFER
            THEN [self |-> self, prompt |-> Some(p), removed |-> removed]
            ELSE get_prompt_loop_newest(
                     [self EXCEPT !.history =
                          SubSeq(self.history, 1, Len(self.history) - 1)],
                     removed + 1)

_get_prompt_drop_newest(self) == get_prompt_loop_newest(self, 0)

\* Variant of _get_prompt: the token buffer is not subtracted from n_ctx.
RECURSIVE get_prompt_loop_no_buffer(_, _)
get_prompt_loop_no_buffer(self, removed) ==
    IF self.history = <<>>
    THEN [self |-> self, prompt |-> None, removed |-> removed]
    ELSE LET p == <<system(self)>> \o _from_commands(self.history)
         IN IF tokenize(p) <= n_ctx
            THEN [self |-> self, prompt |-> Some(p), removed |-> removed]
            ELSE get_prompt_loop_no_buffer(
                     [self EXCEPT !.history = Tail(self.history)], removed + 1)

_get_prompt_no_buffer(self) == get_prompt_loop_no_buffer(self, 0)

\* Variant of _get_prompt: the prompt is compacted, the stored history is not.
_get_prompt_keep_history(self) ==
    [get_prompt_loop(self, 0) EXCEPT !.self = self]

_get_prompt(self) == get_prompt_loop(self, 0)

(***************************************************************************)
(* State.                                                                  *)
(***************************************************************************)
VARIABLES
    llama,      \* the server's LlamaChat object
    prompt,     \* the prompt the last _get_prompt returned (None: it raised)
    removed,    \* the entries that call removed
    dropped,    \* SpecChat: history variable: the entries _get_prompt popped
    chatPc,     \* SpecChat: "idle", "prompted", "failed" or "appended"
    conns,      \* the TCP connections made so far, in the order of connect
    sPc,        \* where the server's main thread is
    sConn,      \* the connection the server accepted (0: none)
    s_intro_done,
    s_initialized,
    sIntro,     \* the batch in flight is INITIAL_COMMANDS
    sBatch,     \* _send_commands: llm_commands.root
    sIdx,       \* _send_commands: the command awaiting its Result
    sResults,   \* _send_commands: results
    sLost,      \* history variable: the results the last aborted batch lost
    cPc,        \* where the client's main thread is
    cSock,      \* the client's socket (0: None)
    cCmd,       \* the command the client is executing
    cShell,     \* the Shell the client was constructed with, as Spec sees it
    wire,       \* SpecWire: the bytes written to a socket and not yet read
    sent,       \* SpecWire: the frames written so far
    got,        \* SpecWire: the messages read_message has returned
    bash,       \* the /bin/bash process behind Shell._shell
    fifos,      \* the FIFOs of the _get_prompt calls on the stack
    q_stdout,   \* Shell._q_stdout
    q_stderr,   \* Shell._q_stderr
    xPc,        \* where Shell.execute is
    xCmd,       \* _execute_shell: command
    xStack,     \* the _wait_done calls that wait for a nested _get_prompt
    xResult,    \* what execute returned (None: nothing yet)
    xTimedOut,  \* history variable: a select of this execute timed out
    xBefore,    \* history variable: bash as this execute found it
    xUserStatus,\* history variable: the $? the user command left (None: not
                \* run yet)
    files,      \* the contents of the files under /app (None: no such file)
    fResult,    \* what _execute_file returned (None: nothing yet)
    qClock,     \* SpecReaders: the lines the reader threads have put
    dPc,        \* SpecReaders: where the main thread is in its drains
    dOut,       \* SpecReaders: the local stdout of _get_stdout
    dErr,       \* SpecReaders: the local stderr of _get_stderr
    returned,   \* SpecReaders: history variable: the output of the Results
    leftover,   \* SpecReaders: history variable: the lines _wait_shell logged
    piped,      \* SpecReaders: the lines in the output pipes of the shell
    owner,      \* SpecReaders: history variable: the command that wrote line n
    pIn,        \* SpecPrompt: the fields a prompt is made of (None: none)
    pOut        \* SpecPrompt: what _parse_prompt made of it (None: not run)

chatVars == <<llama, prompt, removed, dropped, chatPc>>

serverVars ==
    <<sPc, sConn, s_intro_done, s_initialized, sIntro, sBatch, sIdx, sResults>>

clientVars == <<cPc, cSock, cCmd, cShell>>

connVars == <<conns, serverVars, sLost, clientVars>>

wireVars == <<wire, sent, got>>

readerVars == <<qClock, dPc, dOut, dErr, returned, leftover, piped, owner>>

promptVars == <<pIn, pOut>>

shellVars ==
    <<bash, fifos, q_stdout, q_stderr, xPc, xCmd, xStack, xResult, xTimedOut,
      xBefore, xUserStatus, files, fResult, readerVars, promptVars>>

\* What the actions of Spec leave alone.
idleVars == <<prompt, removed, dropped, chatPc, wireVars, shellVars>>

vars == <<chatVars, connVars, wireVars, shellVars>>

(***************************************************************************)
(* The state after both processes are constructed: the server listens, the *)
(* client has a shell and no socket.                                       *)
(***************************************************************************)
ConnInit ==
    /\ conns = <<>>
    /\ sPc = "accept"
    /\ sConn = 0
    /\ s_intro_done = FALSE
    /\ s_initialized = FALSE
    /\ sIntro = FALSE
    /\ sBatch = <<>>
    /\ sIdx = 0
    /\ sResults = <<>>
    /\ sLost = 0
    /\ cPc = "connect"
    /\ cSock = 0
    /\ cCmd = None
    /\ cShell = [pid |-> 1, ran |-> {}]

WireInit ==
    /\ wire = <<>>
    /\ sent = <<>>
    /\ got = <<>>

\* A /bin/bash as Popen starts it: in the client's working directory, X
\* unset, $? = 0, nothing on its stdin, no child.
NewBash(pid) ==
    [alive |-> TRUE, pid |-> pid, cwd |-> "/app", X |-> "", status |-> 0,
     stdin |-> <<>>, child |-> FALSE, hung |-> FALSE, bg |-> FALSE]

\* No prompt has been handed to _parse_prompt.
PromptIdle == pIn = None /\ pOut = None

\* Shell.__init__: _open_shell.
ShellInit ==
    /\ bash = NewBash(1)
    /\ fifos = <<>>
    /\ q_stdout = <<>>
    /\ q_stderr = <<>>
    /\ xPc = "idle"
    /\ xCmd = None
    /\ xStack = <<>>
    /\ xResult = None
    /\ xTimedOut = FALSE
    /\ xBefore = NewBash(1)
    /\ xUserStatus = None
    /\ files = [path \in FilePaths |-> None]
    /\ fResult = None
    /\ qClock = 0
    /\ dPc = "run"
    /\ dOut = <<>>
    /\ dErr = <<>>
    /\ returned = <<>>
    /\ leftover = <<>>
    /\ piped = <<>>
    /\ owner = <<>>

(***************************************************************************)
(* Commands and the outcomes of the collaborators.                         *)
(***************************************************************************)
ShellCmd == ShellCommand(None, "ls")

ReadCmd == FileReadCommand(None, "f")

WriteCmd == FileWriteCommand(None, "f", "hello")

CmdSet == {ShellCmd, ReadCmd, WriteCmd}

INITIAL_COMMANDS ==
    << ShellCommand(Some("List files in the current directory"), "ls -la"),
       ShellCommand(Some("Initialize a git repository"), "git init"),
       FileWriteCommand(None, "test.txt", "Hello, world!"),
       FileReadCommand(None, "test.txt"),
       ShellCommand(Some("Check the status of the git repository"),
                    "git status"),
       ShellCommand(Some("Add all files to the git repository"),
                    "git add test.txt") >>

\* llm_commands.root when _send_commands is handed INITIAL_COMMANDS: the
\* plain list of server/const.py has no attribute root (None: the
\* AttributeError ends the process), the AnyCommands that _send_commands is
\* typed for has.
InitialCommandsRoot == {None, Some(INITIAL_COMMANDS)}

\* get_commands after the prompt is built: the generator's string parsed as
\* AnyCommands; None is the ValueError of a string that does not parse.  The
\* lists drawn repeat one command up to MaxBatch times.
GeneratorOutputs ==
    {None} \cup {Some([i \in 1..k |-> c]) : c \in CmdSet, k \in 0..MaxBatch}

\* len() of the strings written by the model's write commands.
StrLen(str) ==
    CASE str = "" -> 0
      [] str = "hello" -> 5
      [] str = "Hello, world!" -> 13
      [] OTHER -> 1

\* _get_base in a container none of whose three files exists: no command of
\* the model writes them.
_get_base == BaseMissing

\* Shell.execute as the connection sees it: a Result of the class the
\* command's class selects, a shell command with small or huge output.
\* ExecuteRaises are the exceptions that leave execute: a ConnectionError
\* (BrokenPipeError of the shell's stdin) and any other.
execute(command) ==
    CASE command.cls = "ShellCommand" ->
           {ShellResult(_get_base, command, PromptOf(0), out, <<>>, 0) :
              out \in {<<>>, <<OutputLine(0, "huge")>>}}
      [] command.cls = "FileReadCommand" ->
           {FileReadResult(_get_base, command, command.file, Some("data"),
                           None)}
      [] command.cls = "FileWriteCommand" ->
           {FileWriteResult(_get_base, command, command.file, None,
                            Some(StrLen(command.content)))}

ExecuteRaises == {"ConnectionError", "ValueError"}

\* The commands of the model that change what later commands find: the file
\* writes and the git commands that write the repository.  (A write command
\* reaches execute as the read command its JSON validates as first.)
HasEffect(command) ==
    \/ command.cls = "FileWriteCommand"
    \/ /\ command.cls = "ShellCommand"
       /\ command.command \in {"git init", "git add test.txt"}

\* The Shell after execute has returned: the process is the same and what
\* the command changed stays changed.
Executed(shell, command) ==
    IF HasEffect(command) THEN [shell EXCEPT !.ran = @ \cup {command}]
    ELSE shell

(***************************************************************************)
(* Transport at the granularity of frames.  A connection is                *)
(* [c2s, s2c, cOpen, sOpen, accepted, log]: the frames written and not yet *)
(* read in each direction, whether each end is open, whether accept has    *)
(* returned it, and the handshake events seen on it (a history variable).  *)
(***************************************************************************)
NewConn(frames, open, log) ==
    [c2s |-> frames, s2c |-> <<>>, cOpen |-> open, sOpen |-> TRUE,
     accepted |-> FALSE, log |-> log, skipped |-> FALSE]

\* read_message at the granularity of frames: the first frame is returned;
\* buf is a local of the call, so frames that the same recv returned after it
\* are lost.
read_frame(buf) ==
    {[message |-> Head(buf), rest |-> Suffix(Tail(buf), k)] :
       k \in 0..(Len(buf) - 1)}

\* Variant of send_model: the frame is written twice.
send_model_twice(buf, peerOpen, model) ==
    IF peerOpen
    THEN {[ok |-> TRUE,
           buf |-> Append(Append(buf, model_dump_json(model)),
                          model_dump_json(model))]}
    ELSE {[ok |-> TRUE, buf |-> buf], [ok |-> FALSE, buf |-> buf]}

\* send_model: sendall of the JSON and a NUL.  To a peer that closed, the
\* write is lost or raises a ConnectionError (ok = FALSE).
send_model(buf, peerOpen, model) ==
    IF peerOpen
    THEN {[ok |-> TRUE, buf |-> Append(buf, model_dump_json(model))]}
    ELSE {[ok |-> TRUE, buf |-> buf], [ok |-> FALSE, buf |-> buf]}

\* _expect of both peers: "ValueError", "FIN" or "ok".
expect_status(m) ==
    IF m = None THEN "ValueError"
    ELSE IF m[1].cls = "FinMessage" THEN "FIN" ELSE "ok"

Logged(cs, i, event) ==
    IF event \in {cs[i].log[n] : n \in 1..Len(cs[i].log)} THEN cs
    ELSE [cs EXCEPT ![i].log = Append(@, event)]

(***************************************************************************)
(* Server (server/server.py).                                              *)
(***************************************************************************)
Listening == sPc \notin {"dead", "stopped"}

ResetBatch ==
    /\ sConn' = 0
    /\ sIntro' = FALSE
    /\ sBatch' = <<>>
    /\ sIdx' = 0
    /\ sResults' = <<>>

\* Variant of ServerReaccept: a lost connection also forgets that the intro
\* has run.
ServerReacceptForgets(cs) ==
    /\ conns' = [cs EXCEPT ![sConn].sOpen = FALSE, ![sConn].c2s = <<>>]
    /\ sPc' = "accept"
    /\ sLost' = Len(sResults)
    /\ ResetBatch
    /\ s_intro_done' = FALSE
    /\ s_initialized' = FALSE

\* serve: a ConnectionError leaves _handle_connection, which closes conn;
\* the loop accepts again.  The results of the batch in flight are dropped.
ServerReaccept(cs) ==
    /\ conns' = [cs EXCEPT ![sConn].sOpen = FALSE, ![sConn].c2s = <<>>]
    /\ sPc' = "accept"
    /\ sLost' = Len(sResults)
    /\ ResetBatch
    /\ UNCHANGED <<s_intro_done, s_initialized>>

\* Any other exception leaves serve: the process ends and its sockets close.
ServerExits(cs, pc) ==
    /\ conns' = [i \in 1..Len(cs) |->
                   [cs[i] EXCEPT !.sOpen = FALSE, !.c2s = <<>>]]
    /\ sPc' = pc
    /\ sLost' = Len(sResults)
    /\ ResetBatch
    /\ UNCHANGED <<s_intro_done, s_initialized>>

ServerDies(cs) == ServerExits(cs, "dead")

\* _expect on a FinMessage: cleanup closes the listening socket and the
\* ConnectionError is caught by serve, whose loop then ends.
ServerFin(cs) == ServerExits(cs, "stopped")

\* Variant of KeepResult: each Result reaches the history as it arrives.
KeepResultEager(l, results, result) ==
    [llama |-> append_command(l, result), results |-> Append(results, result)]

\* _send_commands, lines 142-143: a Result joins the local list; the chat
\* object is untouched until the loop has ended.
KeepResult(l, results, result) ==
    [llama |-> l, results |-> Append(results, result)]

\* _send_commands after the loop, and the flags set once the intro returns.
BatchDone(cs, l, results, intro) ==
    /\ llama' = append_commands(l, results)
    /\ conns' = cs
    /\ sPc' = "generate"
    /\ sIntro' = FALSE
    /\ sBatch' = <<>>
    /\ sIdx' = 0
    /\ sResults' = <<>>
    /\ s_initialized' = (s_initialized \/ intro)
    /\ s_intro_done' = (s_intro_done \/ intro)
    /\ UNCHANGED <<sConn, sLost>>

\* Variant of SendCommand: the commands left in the batch are all written
\* before the first Result is read.
SendCommandPipelined(cs, l, batch, idx, results, intro) ==
    /\ conns' = Logged([cs EXCEPT ![sConn].s2c =
                          @ \o [n \in 1..(Len(batch) - idx + 1) |->
                                  model_dump_json(batch[idx + n - 1])]],
                       sConn, "<CMD")
    /\ llama' = l
    /\ sPc' = "result"
    /\ sBatch' = batch
    /\ sIdx' = idx
    /\ sResults' = results
    /\ sIntro' = intro
    /\ UNCHANGED <<sConn, sLost, s_intro_done, s_initialized>>

\* _send_commands from the send of command idx up to the blocking read of
\* its Result.
SendCommand(cs, l, batch, idx, results, intro) ==
    \E snd \in send_model(cs[sConn].s2c, cs[sConn].cOpen, batch[idx]) :
       IF snd.ok
       THEN /\ conns' = Logged([cs EXCEPT ![sConn].s2c = snd.buf],
                               sConn, "<CMD")
            /\ llama' = l
            /\ sPc' = "result"
            /\ sBatch' = batch
            /\ sIdx' = idx
            /\ sResults' = results
            /\ sIntro' = intro
            /\ UNCHANGED <<sConn, sLost, s_intro_done, s_initialized>>
       ELSE llama' = l /\ ServerReaccept(cs)

_send_commands(cs, l, batch, intro) ==
    IF batch = <<>> THEN BatchDone(cs, l, <<>>, intro)
    ELSE SendCommand(cs, l, batch, 1, <<>>, intro)

ServerAccept ==
    /\ sPc = "accept"
    /\ \E i \in 1..Len(conns) :
          /\ ~conns[i].accepted
          /\ \A j \in 1..(i - 1) : conns[j].accepted
          /\ conns' = [conns EXCEPT ![i].accepted = TRUE]
          /\ sConn' = i
    /\ sPc' = "syn"
    /\ sLost' = 0
    /\ UNCHANGED <<s_intro_done, s_initialized, sIntro, sBatch, sIdx,
                   sResults, llama, clientVars, idleVars>>

\* Variant of ServerRecvSyn: the server does not wait for the client's ACK
\* before the intro.
ServerRecvSynNoWait ==
    /\ sPc = "syn"
    /\ conns[sConn].c2s # <<>>
    /\ \E rd \in read_frame(conns[sConn].c2s) :
          LET cs == [conns EXCEPT ![sConn].c2s = rd.rest]
              m == expect(rd.message, <<"SynMessage", "NopMessage">>)
          IN IF expect_status(m) # "ok"
             THEN ServerDies(cs) /\ UNCHANGED llama
             ELSE IF m[1].cls = "NopMessage"
             THEN ServerReaccept(cs) /\ UNCHANGED llama
             ELSE _send_commands(
                      Logged(Logged([cs EXCEPT ![sConn].s2c =
                                        Append(@, model_dump_json(AckMessage))],
                                    sConn, ">SYN"), sConn, "<ACK"),
                      llama, INITIAL_COMMANDS, TRUE)
    /\ UNCHANGED <<clientVars, idleVars>>

\* Variant of ServerRecvNop: the probe counts as the first connection.
ServerRecvNopIntroDone(cs) ==
    /\ conns' = [Logged(cs, sConn, ">NOP") EXCEPT ![sConn].sOpen = FALSE,
                                                  ![sConn].c2s = <<>>]
    /\ sPc' = "accept"
    /\ sLost' = Len(sResults)
    /\ ResetBatch
    /\ s_intro_done' = TRUE
    /\ UNCHANGED s_initialized

\* _handle_connection, lines 85-87: a NopMessage returns, and the with
\* statement closes conn.
ServerRecvNop(cs) == ServerReaccept(Logged(cs, sConn, ">NOP"))

\* _handle_connection, lines 84-89.
ServerRecvSyn ==
    /\ sPc = "syn"
    /\ conns[sConn].c2s # <<>>
    /\ \E rd \in read_frame(conns[sConn].c2s) :
          LET cs == [conns EXCEPT ![sConn].c2s = rd.rest]
              m == expect(rd.message, <<"SynMessage", "NopMessage">>)
          IN CASE expect_status(m) = "ValueError" -> ServerDies(cs)
               [] expect_status(m) = "FIN" -> ServerFin(cs)
               [] OTHER ->
                    IF m[1].cls = "NopMessage" THEN ServerRecvNop(cs)
                    ELSE \E snd \in send_model(cs[sConn].s2c,
                                               cs[sConn].cOpen, AckMessage) :
                            IF snd.ok
                            THEN /\ conns' =
                                      Logged(Logged(
                                          [cs EXCEPT ![sConn].s2c = snd.buf],
                                          sConn, ">SYN"), sConn, "<ACK")
                                 /\ sPc' = "ack"
                                 /\ UNCHANGED <<sConn, sLost, s_intro_done,
                                                s_initialized, sIntro, sBatch,
                                                sIdx, sResults>>
                            ELSE ServerReaccept(cs)
    /\ UNCHANGED <<llama, clientVars, idleVars>>

\* _handle_connection, lines 90-95, and _initial_commands.
ServerRecvAck ==
    /\ sPc = "ack"
    /\ conns[sConn].c2s # <<>>
    /\ \E rd \in read_frame(conns[sConn].c2s) :
          LET rcv == [conns EXCEPT ![sConn].c2s = rd.rest]
              cs == Logged(rcv, sConn, ">ACK")
              m == expect(rd.message, <<"AckMessage">>)
          IN CASE expect_status(m) = "ValueError" ->
                    ServerDies(rcv) /\ UNCHANGED llama
               [] expect_status(m) = "FIN" ->
                    ServerFin(rcv) /\ UNCHANGED llama
               [] OTHER ->
                    IF ~s_intro_done /\ ~s_initialized
                    THEN \E root \in InitialCommandsRoot :
                            IF root = None
                            THEN ServerDies(cs) /\ UNCHANGED llama
                            ELSE _send_commands(cs, llama, root[1], TRUE)
                    ELSE /\ conns' = cs
                         /\ sPc' = "generate"
                         /\ s_intro_done' = TRUE
                         /\ UNCHANGED <<llama, sConn, sLost, s_initialized,
                                        sIntro, sBatch, sIdx, sResults>>
    /\ UNCHANGED <<clientVars, idleVars>>

\* Variant of SkipTurn: output that does not parse ends the connection.
SkipTurnDrops(cs, l) ==
    llama' = l /\ ServerReaccept([cs EXCEPT ![sConn].skipped = TRUE])

\* The dispatch loop, lines 97-100: the ValueError of output that does not
\* parse is caught and the loop goes on to the next generation.
SkipTurn(cs, l) ==
    /\ conns' = [cs EXCEPT ![sConn].skipped = TRUE]
    /\ llama' = l
    /\ UNCHANGED <<serverVars, sLost>>

\* The dispatch loop, lines 96-104, up to the first blocking read.
ServerGetCommands ==
    /\ sPc = "generate"
    /\ IF llama.system_mutable = None
       THEN ServerDies(conns) /\ UNCHANGED llama
       ELSE LET r == _get_prompt(llama)
            IN IF r.prompt = None
               THEN llama' = r.self /\ UNCHANGED <<conns, serverVars, sLost>>
               ELSE \E response \in GeneratorOutputs :
                       IF response = None
                       THEN SkipTurn(conns, r.self)
                       ELSE _send_commands(conns, r.self, response[1], FALSE)
    /\ UNCHANGED <<clientVars, idleVars>>

\* _send_commands, lines 142-151: one Result is read; the next command is
\* sent, or the loop has ended and the results reach the history.
ServerRecvResult ==
    /\ sPc = "result"
    /\ conns[sConn].c2s # <<>>
    /\ \E rd \in read_frame(conns[sConn].c2s) :
          LET cs == [conns EXCEPT ![sConn].c2s = rd.rest]
              m == expect(rd.message, AnyResult)
          IN CASE expect_status(m) = "ValueError" ->
                    ServerDies(cs) /\ UNCHANGED llama
               [] expect_status(m) = "FIN" -> ServerFin(cs) /\ UNCHANGED llama
               [] OTHER ->
                    LET kept == KeepResult(llama, sResults, m[1])
                    IN IF sIdx < Len(sBatch)
                       THEN SendCommand(cs, kept.llama, sBatch, sIdx + 1,
                                        kept.results, sIntro)
                       ELSE BatchDone(cs, kept.llama, kept.results, sIntro)
    /\ UNCHANGED <<clientVars, idleVars>>

ServerReading == sPc \in {"syn", "ack", "result"}

\* recv returns no bytes: the peer closed.
ServerConnectionClosed ==
    /\ ServerReading
    /\ conns[sConn].c2s = <<>>
    /\ ~conns[sConn].cOpen
    /\ ServerReaccept(conns)
    /\ UNCHANGED <<llama, clientVars, idleVars>>

\* conn.settimeout(EXIT_TIMEOUT + 1) is never cleared: a recv that waits
\* longer raises TimeoutError, which is no ConnectionError.
ServerTimeout ==
    /\ ServerReading
    /\ conns[sConn].c2s = <<>>
    /\ conns[sConn].cOpen
    /\ ServerDies(conns)
    /\ UNCHANGED <<llama, clientVars, idleVars>>

(***************************************************************************)
(* Client (client/client.py).                                              *)
(***************************************************************************)
\* connect: a ConnectionError ends the connection; sleep, then reconnect.
ClientDrop(cs, pc) ==
    /\ conns' = [cs EXCEPT ![cSock].cOpen = FALSE, ![cSock].s2c = <<>>]
    /\ cPc' = pc
    /\ cSock' = 0
    /\ cCmd' = None

ClientReconnects(cs) == ClientDrop(cs, "sleep")

\* Any other exception leaves connect: the process ends.
ClientDies(cs) == ClientDrop(cs, "dead")

\* Variant of ClientConnect: every connection starts a Shell of its own.
ClientConnectNewShell ==
    /\ cPc = "connect"
    /\ IF Listening
       THEN /\ Len(conns) < MaxConns
            /\ conns' = Append(conns,
                          NewConn(<<model_dump_json(SynMessage)>>, TRUE,
                                  <<"SYN>">>))
            /\ cSock' = Len(conns) + 1
            /\ cPc' = "ack"
            /\ UNCHANGED cCmd
       ELSE /\ cPc' = "sleep"
            /\ UNCHANGED <<conns, cSock, cCmd>>
    /\ cShell' = [pid |-> cShell.pid + 1, ran |-> {}]
    /\ UNCHANGED <<llama, serverVars, sLost, idleVars>>

\* _handle_connection, lines 64-69.
ClientConnect ==
    /\ cPc = "connect"
    /\ IF Listening
       THEN /\ Len(conns) < MaxConns
            /\ conns' = Append(conns,
                          NewConn(<<model_dump_json(SynMessage)>>, TRUE,
                                  <<"SYN>">>))
            /\ cSock' = Len(conns) + 1
            /\ cPc' = "ack"
            /\ UNCHANGED cCmd
       ELSE /\ cPc' = "sleep"
            /\ UNCHANGED <<conns, cSock, cCmd>>
    /\ UNCHANGED cShell
    /\ UNCHANGED <<llama, serverVars, sLost, idleVars>>

ClientWake ==
    /\ cPc = "sleep"
    /\ cPc' = "connect"
    /\ UNCHANGED <<conns, cSock, cCmd, cShell, llama, serverVars, sLost,
                   idleVars>>

\* _handle_connection, lines 70-74.
ClientRecvAck ==
    /\ cPc = "ack"
    /\ conns[cSock].s2c # <<>>
    /\ \E rd \in read_frame(conns[cSock].s2c) :
          LET rcv == [conns EXCEPT ![cSock].s2c = rd.rest]
              cs == Logged(rcv, cSock, "ACK<")
              m == expect(rd.message, <<"AckMessage">>)
          IN CASE expect_status(m) = "ValueError" -> ClientDies(rcv)
               [] expect_status(m) = "FIN" -> ClientReconnects(rcv)
               [] OTHER ->
                    \E snd \in send_model(cs[cSock].c2s, cs[cSock].sOpen,
                                          AckMessage) :
                       IF snd.ok
                       THEN /\ conns' = Logged(
                                   [cs EXCEPT ![cSock].c2s = snd.buf],
                                   cSock, "ACK>")
                            /\ cPc' = "command"
                            /\ UNCHANGED <<cSock, cCmd>>
                       ELSE ClientReconnects(cs)
    /\ UNCHANGED cShell
    /\ UNCHANGED <<llama, serverVars, sLost, idleVars>>

\* _handle_commands, lines 99-104.
ClientRecvCommand ==
    /\ cPc = "command"
    /\ conns[cSock].s2c # <<>>
    /\ \E rd \in read_frame(conns[cSock].s2c) :
          LET cs == [conns EXCEPT ![cSock].s2c = rd.rest]
              m == expect(rd.message, AnyServerRuntimeMessage)
          IN CASE expect_status(m) = "ValueError" -> ClientDies(cs)
               [] expect_status(m) = "FIN" -> ClientReconnects(cs)
               [] OTHER -> /\ conns' = Logged(cs, cSock, "EXEC")
                           /\ cPc' = "execute"
                           /\ cCmd' = m
                           /\ UNCHANGED cSock
    /\ UNCHANGED cShell
    /\ UNCHANGED <<llama, serverVars, sLost, idleVars>>

\* _handle_commands, lines 105-107.
ClientExecute ==
    /\ cPc = "execute"
    /\ \/ \E result \in execute(cCmd[1]) :
             /\ cShell' = Executed(cShell, cCmd[1])
             /\ \E snd \in send_model(conns[cSock].c2s, conns[cSock].sOpen,
                                      result) :
                   IF snd.ok
                   THEN /\ conns' = [conns EXCEPT ![cSock].c2s = snd.buf]
                        /\ cPc' = "command"
                        /\ cCmd' = None
                        /\ UNCHANGED cSock
                   ELSE ClientReconnects(conns)
       \/ /\ UNCHANGED cShell
          /\ \E e \in ExecuteRaises :
                IF e = "ConnectionError" THEN ClientReconnects(conns)
                ELSE ClientDies(conns)
    /\ UNCHANGED <<llama, serverVars, sLost, idleVars>>

\* recv returns no bytes: the peer closed.
ClientConnectionClosed ==
    /\ cPc \in {"ack", "command"}
    /\ conns[cSock].s2c = <<>>
    /\ ~conns[cSock].sOpen
    /\ ClientReconnects(conns)
    /\ UNCHANGED cShell
    /\ UNCHANGED <<llama, serverVars, sLost, idleVars>>

\* settimeout(1) holds until the handshake is done: connect or the recv of
\* the ACK raises TimeoutError, which is no ConnectionError.
ClientTimeout ==
    /\ \/ /\ cPc = "connect"
          /\ cPc' = "dead"
          /\ UNCHANGED <<conns, cSock, cCmd>>
       \/ /\ cPc = "ack"
          /\ conns[cSock].s2c = <<>>
          /\ conns[cSock].sOpen
          /\ ClientDies(conns)
    /\ UNCHANGED cShell
    /\ UNCHANGED <<llama, serverVars, sLost, idleVars>>

\* Frames that do not come from this code base are rationed: one in a run.
FaultBudget ==
    \A i \in 1..Len(conns) :
       \A n \in 1..Len(conns[i].log) : conns[i].log[n] # "FAULT"

\* A frame that validates as no message of the protocol.
InvalidFrame == [junk |-> "x"]

\* An in-band close request of the client: between two commands it sends a
\* FinMessage, closes its socket and goes on to reconnect.
ClientSendFin ==
    /\ cPc = "command"
    /\ FaultBudget
    /\ \E snd \in send_model(conns[cSock].c2s, conns[cSock].sOpen,
                             FinMessage) :
          ClientReconnects(Logged([conns EXCEPT ![cSock].c2s = snd.buf],
                                  cSock, "FAULT"))
    /\ UNCHANGED cShell
    /\ UNCHANGED <<llama, serverVars, sLost, idleVars>>

\* The peer answers a command with a frame that is no Result: the bytes
\* that the server's read_message returns are the peer's choice.
InvalidResultArrives ==
    /\ cPc = "execute"
    /\ FaultBudget
    /\ conns[cSock].sOpen
    /\ conns' = Logged([conns EXCEPT ![cSock].c2s = Append(@, InvalidFrame)],
                       cSock, "FAULT")
    /\ cPc' = "command"
    /\ cCmd' = None
    /\ UNCHANGED <<cSock, cShell, llama, serverVars, sLost, idleVars>>

\* The peer sends a frame that is no Command (an invalid one or a
\* FinMessage) while the client waits for one: the bytes that the client's
\* read_message returns are the peer's choice.
InvalidCommandArrives ==
    /\ cPc = "command"
    /\ FaultBudget
    /\ conns[cSock].cOpen
    /\ conns[cSock].s2c = <<>>
    /\ \E frame \in {InvalidFrame, model_dump_json(FinMessage)} :
          conns' = Logged([conns EXCEPT ![cSock].s2c = <<frame>>],
                          cSock, "FAULT")
    /\ UNCHANGED <<llama, serverVars, sLost, clientVars, idleVars>>

\* A liveness probe: some other peer connects, sends a NopMessage and closes.
ProbeNop ==
    /\ Listening
    /\ Len(conns) < MaxConns
    /\ conns' = Append(conns,
                  NewConn(<<model_dump_json(NopMessage)>>, FALSE, <<>>))
    /\ UNCHANGED <<llama, serverVars, sLost, clientVars, idleVars>>

Init ==
    /\ llama = LlamaChatInit
    /\ prompt = None
    /\ removed = 0
    /\ dropped = {}
    /\ chatPc = "idle"
    /\ ConnInit
    /\ WireInit
    /\ ShellInit
    /\ PromptIdle

Next ==
    \/ ServerAccept
    \/ ServerRecvSyn
    \/ ServerRecvAck
    \/ ServerGetCommands
    \/ ServerRecvResult
    \/ ServerConnectionClosed
    \/ ServerTimeout
    \/ ClientConnect
    \/ ClientWake
    \/ ClientRecvAck
    \/ ClientRecvCommand
    \/ ClientExecute
    \/ ClientConnectionClosed
    \/ ClientTimeout
    \/ ClientSendFin
    \/ InvalidResultArrives
    \/ InvalidCommandArrives
    \/ ProbeNop

Spec == Init /\ [][Next]_vars

\* The next message the server will read is a FinMessage.
FinAtServer ==
    /\ ServerReading
    /\ conns[sConn].c2s # <<>>
    /\ Head(conns[sConn].c2s) = model_dump_json(FinMessage)

\* C13 - FIN handling on the server: the step in which the server reads a
\* FinMessage closes that connection and takes the server back to accept,
\* still listening.
FinReturnsToAccept ==
    [][(FinAtServer /\ sPc' # sPc)
         => /\ sPc' = "accept"
            /\ ~conns'[sConn].sOpen]_vars

\* C14 - Server recovery from a lost connection: when the client has closed
\* the socket during the dispatch loop, the server's next step of reading
\* (or its failed send) takes it to accept with the history and the intro
\* flag as they were, the Results of the batch in flight dropped; the
\* handshake of the next connection leaves the history alone and ends at
\* generation without an intro command.
ServerRecovery ==
    [][/\ (/\ sPc = "result" /\ s_intro_done
           /\ ~conns[sConn].cOpen /\ conns[sConn].c2s = <<>>
           /\ sPc' # sPc)
            => /\ sPc' = "accept"
               /\ llama' = llama
               /\ s_intro_done'
               /\ sLost' = Len(sResults)
       /\ (sPc = "generate" /\ s_intro_done /\ sPc' = "accept")
            => /\ llama' = _get_prompt(llama).self
               /\ s_intro_done'
       /\ (sPc \in {"accept", "syn", "ack"} /\ s_intro_done)
            => llama' = llama
       /\ (/\ sPc = "ack" /\ s_intro_done
           /\ sPc' \notin {"ack", "accept", "dead", "stopped"})
            => /\ sPc' = "generate"
               /\ conns'[sConn].s2c = conns[sConn].s2c
               /\ sBatch' = <<>>
               /\ ~sIntro']_vars

\* A later connection has reached generation with no command sent on it,
\* the intro and at least one batch having completed on an earlier one.
WitnessServerRecovery ==
    /\ sPc = "generate" /\ s_intro_done /\ sConn > 1
    /\ llama.history # <<>>
    /\ \A n \in 1..Len(conns[sConn].log) : conns[sConn].log[n] # "<CMD"

\* C15 - Client reconnection: a connection, or an attempt to connect, that
\* ends for a reason of the transport (FIN received, peer closed, connect
\* refused, a failed read or write) leaves the client asleep, and the sleep
\* ends in a new attempt to connect.
ClientAlwaysRetries ==
    [][/\ (cPc = "connect" /\ cPc' \notin {"connect", "ack"})
            => cPc' = "sleep"
       /\ (/\ cPc \in {"ack", "command"} /\ cSock' = 0
           /\ \/ conns[cSock].s2c = <<>>
              \/ Head(conns[cSock].s2c) = model_dump_json(FinMessage))
            => cPc' = "sleep"
       /\ (cPc = "sleep" /\ cPc' # cPc) => cPc' = "connect"]_vars

\* C16 - Invalid Result on the server: the step in which the server, waiting
\* for a Result, reads a frame that is no control message and validates as
\* no Result variant closes that connection, takes the server back to accept
\* and leaves the history as it was.
InvalidResultClosesConnection ==
    [][(/\ sPc = "result"
        /\ conns[sConn].c2s # <<>>
        /\ "kind" \notin DOMAIN Head(conns[sConn].c2s)
        /\ expect(Head(conns[sConn].c2s), AnyResult) = None
        /\ sPc' # sPc)
         => /\ sPc' = "accept"
            /\ ~conns'[sConn].sOpen
            /\ llama'.history = llama.history]_vars

\* C17 - Invalid Command on the client: the step in which the client,
\* waiting for a Command, reads a frame that validates as no Command and no
\* FinMessage ends the connection without a command handed to the shell,
\* and the client goes on to reconnect.
InvalidCommandClosesConnection ==
    [][(/\ cPc = "command"
        /\ conns[cSock].s2c # <<>>
        /\ expect(Head(conns[cSock].s2c), AnyServerRuntimeMessage) = None
        /\ cPc' # cPc)
         => /\ cPc' = "sleep"
            /\ cCmd' = None
            /\ ~conns'[cSock].cOpen]_vars

\* The generator's output did not parse on connection i.
Skipped(cs, i) == cs[i].skipped

\* C18 - Invalid model output skips the turn: the step in which the
\* generator's output fails to parse puts no frame on the connection, leaves
\* it open, appends nothing to the history (the compactor may have dropped a
\* prefix of it) and leaves the server at generation.
InvalidOutputSkipsTurn ==
    [][(sPc = "generate" /\ ~Skipped(conns, sConn) /\ Skipped(conns', sConn))
         => /\ sPc' = "generate"
            /\ conns'[sConn].s2c = conns[sConn].s2c
            /\ conns'[sConn].sOpen
            /\ llama'.history = _get_prompt(llama).self.history
            /\ \E k \in 0..Len(llama.history) :
                  llama'.history = Suffix(llama.history, k)
            /\ sResults' = <<>>]_vars

\* After a skipped turn the same connection carried a further command to a
\* client that is still connected.
WitnessSkippedTurn ==
    /\ sPc = "result" /\ ~sIntro /\ Skipped(conns, sConn)
    /\ conns[sConn].cOpen /\ conns[sConn].s2c # <<>>
    /\ llama.history # <<>>

\* C19 - Read timeouts apply to the handshake only: after the handshake a
\* peer that waits for a frame from a connected peer, with none in flight,
\* goes on waiting: the server stays at its read of the Result and the
\* client's read of the next Command does not end the process.
ReadsBlockAfterHandshake ==
    [][/\ (/\ sPc = "result"
           /\ conns[sConn].cOpen /\ conns[sConn].c2s = <<>>)
            => sPc' = "result"
       /\ (/\ cPc = "command"
           /\ conns[cSock].sOpen /\ conns[cSock].s2c = <<>>)
            => cPc' # "dead"]_vars

\* C21 - Intro phase runs once and first: the step that reads the ACK of a
\* handshake before any intro has completed dispatches the first of the
\* INITIAL_COMMANDS (or finds the connection lost); no generation happens
\* before an intro has completed, and no intro batch is in flight after one.
IntroOnceAndFirst ==
    [][/\ (/\ sPc = "ack" /\ ~s_intro_done
           /\ conns[sConn].c2s # <<>>
           /\ Head(conns[sConn].c2s) = model_dump_json(AckMessage)
           /\ sPc' # sPc)
            => \/ sPc' = "accept"
               \/ /\ sPc' = "result" /\ sIntro'
                  /\ sBatch' = INITIAL_COMMANDS /\ sIdx' = 1
       /\ sPc' = "generate" => s_intro_done'
       /\ (s_intro_done /\ sPc' = "result") => ~sIntro']_vars

\* C29 - NOP probe: the step of the server that reads a NopMessage as the
\* first message of a connection closes the connection and returns to
\* accept; it writes no frame (no ACK, no command), and leaves the history
\* and the intro flags as they were.
NopProbeCloses ==
    [][(/\ sPc = "syn" /\ sPc' # "syn"
        /\ conns[sConn].c2s # <<>>
        /\ Head(conns[sConn].c2s) = model_dump_json(NopMessage))
          => /\ sPc' = "accept"
             /\ ~conns'[sConn].sOpen
             /\ conns'[sConn].s2c = <<>>
             /\ conns'[sConn].log = <<">NOP">>
             /\ llama' = llama
             /\ s_intro_done' = s_intro_done
             /\ s_initialized' = s_initialized]_vars

\* A probe was answered by a server that is waiting in accept.
WitnessNopProbeCloses ==
    /\ sPc = "accept"
    /\ \E i \in 1..Len(conns) :
          /\ conns[i].log = <<">NOP">>
          /\ ~conns[i].sOpen
          /\ conns[i].s2c = <<>>

\* C35 - Handshake timeout is recoverable: the step that ends a handshake
\* read on which nothing arrived from a connected peer takes the server
\* back to accept and sends the client to sleep before it reconnects.
HandshakeTimeoutRecoverable ==
    [][/\ (/\ sPc \in {"syn", "ack"} /\ sPc' # sPc
           /\ conns[sConn].cOpen /\ conns[sConn].c2s = <<>>)
            => sPc' = "accept"
       /\ (/\ cPc = "ack" /\ cPc' # cPc
           /\ conns[cSock].sOpen /\ conns[cSock].s2c = <<>>)
            => cPc' = "sleep"]_vars

\* Frames that carry a Command or a Result (no control message).
IsControl(frame) == "kind" \in DOMAIN frame

Payloads(buf) ==
    {n \in 1..Len(buf) :
       ~IsControl(buf[n]) /\ expect(buf[n], AnyCommand \o AnyResult) # None}

\* Commands sent whose Result the server has not yet been handed: frames on
\* their way in either direction and the command the client is executing.
Outstanding(i) ==
    Cardinality(Payloads(conns[i].s2c)) + Cardinality(Payloads(conns[i].c2s))
      + (IF cSock = i /\ cPc = "execute" THEN 1 ELSE 0)

\* C1 - Batch atomicity: a step that ends a batch on a dropped connection
\* (or on the end of the server) leaves the history as it was; the history
\* grows only in the step that receives the last Result of a batch, and then
\* by the Results of the whole batch; any other change of it is the
\* compactor's drop of a prefix.
BatchAtomicity ==
    [][/\ (sPc = "result" /\ sPc' \in {"accept", "dead", "stopped"})
            => llama'.history = llama.history
       /\ Len(llama'.history) > Len(llama.history)
            => /\ sPc = "result" /\ sPc' = "generate"
               /\ sIdx = Len(sBatch)
               /\ Len(sResults) = Len(sBatch) - 1
               /\ Len(llama'.history) = Len(llama.history) + Len(sBatch)
               /\ SubSeq(llama'.history, 1, Len(llama.history) + Len(sResults))
                    = llama.history \o sResults
       /\ (llama'.history # llama.history
             /\ Len(llama'.history) <= Len(llama.history))
            => \E k \in 1..Len(llama.history) :
                  llama'.history = Suffix(llama.history, k)]_vars

\* The connection dropped after one Result of a two-command batch, later
\* than the intro.
WitnessBatchDropped ==
    sPc = "accept" /\ sLost = 1 /\ s_intro_done /\ llama.history # <<>>

\* C2 - Lockstep: on every connection at most one Command or Result is
\* outstanding at any time.
Lockstep == \A i \in 1..Len(conns) : Outstanding(i) <= 1

\* The Result of the second command of a batch is on its way.
WitnessLockstep ==
    /\ sPc = "result"
    /\ sIdx = 2
    /\ Len(sResults) = 1
    /\ Payloads(conns[sConn].c2s) # {}

\* The connection carries only what the server and the client of this
\* code base wrote.
Unfaulted(i) == \A n \in 1..Len(conns[i].log) : conns[i].log[n] # "FAULT"

\* C36 - Channel occupancy: on every connection that carries only the
\* frames the server and the client wrote, in handshake, intro and dispatch,
\* each direction holds at most one frame that has been written and not yet
\* read.
ChannelOccupancy ==
    \A i \in 1..Len(conns) :
       Unfaulted(i) => Len(conns[i].c2s) <= 1 /\ Len(conns[i].s2c) <= 1

\* A Command of the dispatch phase is on its way while the other direction
\* is empty.
WitnessChannelOccupancy ==
    /\ sPc = "result" /\ ~sIntro
    /\ Unfaulted(sConn)
    /\ Len(conns[sConn].s2c) = 1 /\ conns[sConn].c2s = <<>>
    /\ Payloads(conns[sConn].s2c) # {}


\* C40 - Reconnection resets neither peer: a step that opens or drops the
\* client's connection leaves the client with the same shell process and
\* with everything its commands changed, and a step in which the server
\* leaves a connection for accept leaves it the history it had (compacted,
\* when the step began with a generation).
ReconnectKeepsState ==
    [][/\ cSock' # cSock
            => /\ cShell'.pid = cShell.pid
               /\ cShell.ran \subseteq cShell'.ran
       /\ (sConn # 0 /\ sPc' = "accept")
            => llama'.history = IF sPc = "generate"
                                THEN _get_prompt(llama).self.history
                                ELSE llama.history]_vars

\* After a disconnect in the middle of the intro the client is on its second
\* connection and has received no command on it yet; its shell is still in
\* the repository that a command of the dropped batch made, and the history
\* has no Result at all.
WitnessReconnectKeepsState ==
    /\ cSock = 2
    /\ cPc = "command"
    /\ conns[1].log # <<>> /\ conns[1].log[1] = "SYN>"
    /\ \A n \in 1..Len(conns[2].log) : conns[2].log[n] # "EXEC"
    /\ llama.history = <<>>
    /\ \E c \in cShell.ran : c.cls = "ShellCommand" /\ c.command = "git init"

\* Position of the event in the log (0: absent).
Pos(log, event) ==
    IF \E n \in 1..Len(log) : log[n] = event
    THEN CHOOSE n \in 1..Len(log) : log[n] = event
    ELSE 0

InOrder(log, events) ==
    /\ \A n \in 1..Len(events) : Pos(log, events[n]) > 0
    /\ \A n \in 1..(Len(events) - 1) :
          Pos(log, events[n]) < Pos(log, events[n + 1])

\* C3 - Handshake ordering: on every connection the first Command is sent
\* after the server received SYN, sent ACK and received the client's ACK, in
\* that order; the first command is executed after the client sent SYN,
\* received ACK and sent ACK.
HandshakeOrdering ==
    \A i \in 1..Len(conns) :
       /\ Pos(conns[i].log, "<CMD") > 0
            => InOrder(conns[i].log, <<">SYN", "<ACK", ">ACK", "<CMD">>)
       /\ Pos(conns[i].log, "EXEC") > 0
            => InOrder(conns[i].log, <<"SYN>", "ACK<", "ACK>", "EXEC">>)

\* A second connection has completed the handshake and executes a command.
WitnessHandshake ==
    /\ cPc = "execute"
    /\ cSock > 1
    /\ Pos(conns[cSock].log, "<CMD") > 0
    /\ Pos(conns[cSock].log, "EXEC") > 0

ResultClass(command) ==
    CASE command.cls = "ShellCommand" -> "ShellResult"
      [] command.cls = "FileReadCommand" -> "FileReadResult"
      [] command.cls = "FileWriteCommand" -> "FileWriteResult"

\* C8 - Variant round-trip: the command the client executes is the command
\* the server sent, and each Result the server holds is of the class of its
\* command, a FileWriteResult with written set.
VariantRoundTrip ==
    /\ (cPc = "execute" /\ sPc = "result" /\ cSock = sConn)
         => cCmd[1] = sBatch[sIdx]
    /\ sPc = "result"
         => \A n \in 1..Len(sResults) :
               /\ sResults[n].cls = ResultClass(sBatch[n])
               /\ sBatch[n].cls = "FileWriteCommand"
                    => sResults[n].written # None
(***************************************************************************)
(* SpecWire: send_model and read_message on the bytes of one socket.       *)
(***************************************************************************)
NUL == "NUL"

\* Bytes of the JSON text of a message; none is NUL.
JsonBytes == {"a", "b"}

JsonTexts == UNION {[1..k -> JsonBytes] : k \in 1..MaxFrameLen}

\* The most bytes one recv returns.
RecvSize == 4096

Min(a, b) == IF a <= b THEN a ELSE b

HasNul(buf) == \E n \in 1..Len(buf) : buf[n] = NUL

FirstNul(buf) ==
    CHOOSE n \in 1..Len(buf) :
       buf[n] = NUL /\ \A m \in 1..(n - 1) : buf[m] # NUL

\* The loop of read_message: recv returns any nonempty prefix of the bytes
\* that arrived, up to RecvSize; once buf holds a NUL the bytes before the
\* first NUL are returned and the rest of buf goes with the call.  No
\* outcome: recv blocks.
RECURSIVE read_message(_, _)
read_message(buf, arrived) ==
    IF arrived = <<>> THEN {}
    ELSE UNION {
           LET more == buf \o SubSeq(arrived, 1, n)
               rest == SubSeq(arrived, n + 1, Len(arrived))
           IN IF HasNul(more)
              THEN {[message |-> SubSeq(more, 1, FirstNul(more) - 1),
                     arrived |-> rest]}
              ELSE read_message(more, rest) :
           n \in 1..Min(Len(arrived), RecvSize)}

\* sendall of the JSON text and a NUL.
sendall(arrived, text) == arrived \o text \o <<NUL>>

WireSend ==
    /\ Len(sent) < MaxFrames
    /\ \E text \in JsonTexts :
          /\ wire' = sendall(wire, text)
          /\ sent' = Append(sent, text)
    /\ UNCHANGED <<got, chatVars, connVars, shellVars>>

WireRead ==
    /\ \E rd \in read_message(<<>>, wire) :
          /\ got' = Append(got, rd.message)
          /\ wire' = rd.arrived
    /\ UNCHANGED <<sent, chatVars, connVars, shellVars>>

WireNext == WireSend \/ WireRead

SpecWire == Init /\ [][WireNext]_vars

RECURSIVE Framed(_)
Framed(texts) ==
    IF texts = <<>> THEN <<>>
    ELSE Head(texts) \o <<NUL>> \o Framed(Tail(texts))

\* C7 - Frame sequence preservation: the messages returned so far are the
\* first frames written, in order, and the bytes not yet returned are the
\* remaining frames, whole.
FrameSequencePreserved ==
    \E k \in 0..Len(sent) :
       /\ got = SubSeq(sent, 1, k)
       /\ wire = Framed(SubSeq(sent, k + 1, Len(sent)))

(***************************************************************************)
(* SpecShell: Shell.execute of shell commands, and the bash process that   *)
(* reads the lines written to its stdin one after the other.               *)
(***************************************************************************)
ShellTexts ==
    {"cd /tmp", "X=1", "echo hi", "pwd", "ls nofile", "sleep 100", "exit 42",
     "while :; do :; done", "echo g2 > /app/goal", "echo 'x", "vim f",
     "ls | less", "sleep 100 &", "sleep 100 & exit",
     "echo $("}

\* The lines _put_stdin writes: the text of a command, or the probe of
\* _get_prompt that appends the expanded PS1 to a FIFO.
CmdLine(text) == [kind |-> "cmd", text |-> text]

ProbeLine(fifo) == [kind |-> "probe", fifo |-> fifo]

\* Variant of PS1: the directory reported is the one bash started in.
PS1StartDir(b) ==
    [exit_code |-> b.status, user |-> "u", host |-> "h", cwd |-> "/app",
     usertype |-> "$"]

\* "${PS1@P}" for PS1 = '$? \u@\h:\w $ ', as its fields.
PS1(b) ==
    [exit_code |-> b.status, user |-> "u", host |-> "h", cwd |-> b.cwd,
     usertype |-> "$"]

USERTYPES(mark) == IF mark = "$" THEN "user" ELSE "root"

_parse_prompt(str) ==
    [prompt |-> str, exit_code |-> str.exit_code, user |-> str.user,
     host |-> str.host, cwd |-> str.cwd, usertype |-> USERTYPES(str.usertype)]

_dummy_out(message) == <<OutputLine(0, "/bin/bash: " \o message)>>

\* _dummy_result once its _get_prompt has returned str and _get_config has
\* returned base.
_dummy_result(base, command, exit_code, stdout, stderr, str) ==
    ShellResult(base, ShellCommand(None, command), _parse_prompt(str),
                IF stdout = "" THEN <<>> ELSE _dummy_out(stdout),
                IF stderr = "" THEN <<>> ELSE _dummy_out(stderr),
                exit_code)

\* What a _wait_done that waited for a nested _get_prompt returns: after a
\* respawn the parsed prompt's text, after a timeout the prompt text of the
\* dummy result.
wait_done_return(frame, str) ==
    IF frame = "timeout"
    THEN _dummy_result(_get_base, "", -2, "", "Command timed out",
                       str).prompt.prompt
    ELSE _parse_prompt(str).prompt

RECURSIVE Unwind(_, _)
Unwind(stack, str) ==
    IF stack = <<>> THEN str
    ELSE Unwind(SubSeq(stack, 1, Len(stack) - 1),
                wait_done_return(stack[Len(stack)], str))

\* Variant of _ensure_shell: the shell is reopened whether it has exited or
\* not.
_ensure_shell_reopens(b) == NewBash(b.pid + 1)

\* _ensure_shell: a bash that has exited is waited for and replaced.
_ensure_shell(b) == IF b.alive THEN b ELSE NewBash(b.pid + 1)

\* _ensure_shell returns: the shell is there, or the joins of _wait_shell
\* return, which they do once the output pipes of the old shell are at end
\* of file.  A background job the old shell left behind holds them open.
EnsureReturns(b) == b.alive \/ ~b.bg

\* Variant of KillOutcomes: _kill_shell_children is called once, without
\* kill=True, and a child that ignores SIGTERM lives on.
KillOutcomesTerminateOnly(b) ==
    IF b.alive /\ (b.child \/ b.bg)
    THEN {[bash |-> [b EXCEPT !.child = FALSE, !.bg = FALSE,
                              !.status = IF b.child THEN 143 ELSE @],
           err |-> <<OutputLine(0, "Terminated")>>],
          [bash |-> b, err |-> <<>>]}
    ELSE {[bash |-> b, err |-> <<>>]}

\* _kill_shell_children, with kill=True when terminate did not do: the
\* foreground child and the background job of a live bash die of SIGTERM
\* or SIGKILL, and bash reports it on stderr.
KillOutcomes(b) ==
    IF b.alive /\ (b.child \/ b.bg)
    THEN {[bash |-> [b EXCEPT !.child = FALSE, !.bg = FALSE,
                              !.status = IF b.child THEN 143 ELSE @],
           err |-> <<OutputLine(0, "Terminated")>>],
          [bash |-> [b EXCEPT !.child = FALSE, !.bg = FALSE,
                              !.status = IF b.child THEN 137 ELSE @],
           err |-> <<OutputLine(0, "Killed")>>]}
    ELSE {[bash |-> b, err |-> <<>>]}

\* The queues after _ensure_shell: _wait_shell drains them and _open_shell
\* makes new ones.
QueueAfter(b, queue) == IF b.alive THEN queue ELSE <<>>

\* bashlex.parse on the texts of the model: the message of the
\* MatchedPairError or ParsingError it raises, None when the text parses.
ParsingError(text) ==
    IF text = "echo 'x"
    THEN Some("unexpected EOF while looking for matching \"'\"")
    ELSE None

\* bashlex.parse raises TypeError: the text stands for those on which
\* bashlex fails to construct its own ParsingError.
ParseTypeError(text) == text = "echo $("

\* _get_commands: the first word of every command node of the parse.
_get_commands(text) ==
    CASE text = "vim f" -> {"vim"}
      [] text = "ls | less" -> {"ls", "less"}
      [] text = "ls nofile" -> {"ls"}
      [] text \in {"sleep 100", "sleep 100 &"} -> {"sleep"}
      [] text = "sleep 100 & exit" -> {"sleep", "exit"}
      [] text = "exit 42" -> {"exit"}
      [] text = "cd /tmp" -> {"cd"}
      [] text = "pwd" -> {"pwd"}
      [] text = "X=1" -> {"X=1"}
      [] text = "while :; do :; done" -> {":"}
      [] OTHER -> {"echo"}

\* Variant of SHELL_INTERACTIVE_COMMANDS: the pagers are let through.
SHELL_EDITORS_ONLY == {"vim", "nano"}

SHELL_INTERACTIVE_COMMANDS == {"vim", "nano", "less", "more"}

\* Variant of _lex: a text that does not parse is not refused.
_lex_unparsed(text) ==
    LET interactive == _get_commands(text) \cap SHELL_INTERACTIVE_COMMANDS
    IN IF ParseTypeError(text)
       THEN Some([exit_code |-> -2, stderr |-> "Internal error"])
       ELSE IF interactive # {}
       THEN Some([exit_code |-> -3,
                  stderr |-> "Not a terminal: "
                               \o (CHOOSE name \in interactive : TRUE)])
       ELSE None

\* _lex: None, or the exit code and stderr of the dummy result that refuses
\* the command.
_lex(text) ==
    LET interactive == _get_commands(text) \cap SHELL_INTERACTIVE_COMMANDS
    IN IF ParsingError(text) # None
       THEN Some([exit_code |-> 2, stderr |-> ParsingError(text)[1]])
       ELSE IF ParseTypeError(text)
       THEN Some([exit_code |-> -2, stderr |-> "Internal error"])
       ELSE IF interactive # {}
       THEN Some([exit_code |-> -3,
                  stderr |-> "Not a terminal: "
                               \o (CHOOSE name \in interactive : TRUE)])
       ELSE None

\* bash runs the next line of its stdin.
BashStep ==
    /\ bash.alive
    /\ ~bash.child
    /\ ~bash.hung
    /\ bash.stdin # <<>>
    /\ LET line == Head(bash.stdin)
           rest == [bash EXCEPT !.stdin = Tail(@)]
       IN IF line.kind = "probe"
          THEN /\ bash' = rest
               /\ IF line.fifo <= Len(fifos)
                  THEN /\ fifos' = [fifos EXCEPT ![line.fifo] = Some(PS1(bash))]
                       /\ UNCHANGED q_stderr
                  ELSE /\ q_stderr' = Append(q_stderr,
                                        OutputLine(0, "No such file"))
                       /\ UNCHANGED fifos
               /\ UNCHANGED q_stdout
          ELSE /\ bash' =
                    CASE line.text = "cd /tmp" ->
                           [rest EXCEPT !.cwd = "/tmp", !.status = 0]
                      [] line.text = "X=1" ->
                           [rest EXCEPT !.X = "1", !.status = 0]
                      [] line.text = "echo hi" -> [rest EXCEPT !.status = 0]
                      [] line.text = "echo g2 > /app/goal" ->
                           [rest EXCEPT !.status = 0]
                      [] line.text = "pwd" -> [rest EXCEPT !.status = 0]
                      [] line.text = "ls nofile" -> [rest EXCEPT !.status = 2]
                      [] line.text = "sleep 100" -> [rest EXCEPT !.child = TRUE]
                      [] line.text = "sleep 100 &" ->
                           [rest EXCEPT !.bg = TRUE, !.status = 0]
                      [] line.text = "sleep 100 & exit" ->
                           [rest EXCEPT !.bg = TRUE, !.alive = FALSE,
                                        !.status = 0, !.stdin = <<>>]
                      [] line.text = "while :; do :; done" ->
                           [rest EXCEPT !.hung = TRUE]
                      [] line.text = "exit 42" ->
                           [rest EXCEPT !.alive = FALSE, !.status = 42,
                                        !.stdin = <<>>]
                      [] line.text = "echo 'x" ->
                           [rest EXCEPT !.status = 2]
                      [] line.text \in {"vim f", "ls | less"} ->
                           [rest EXCEPT !.child = TRUE]
               /\ q_stdout' =
                    CASE line.text = "echo hi" ->
                           Append(q_stdout, OutputLine(0, "hi"))
                      [] line.text = "pwd" ->
                           Append(q_stdout, OutputLine(0, bash.cwd))
                      [] OTHER -> q_stdout
               /\ q_stderr' = IF line.text = "ls nofile"
                              THEN Append(q_stderr,
                                          OutputLine(0, "No such file"))
                              ELSE q_stderr
               /\ UNCHANGED fifos
    /\ xUserStatus' = IF /\ Head(bash.stdin).kind = "cmd"
                         /\ ~bash'.child /\ ~bash'.hung
                      THEN Some(bash'.status)
                      ELSE xUserStatus
    /\ files' = IF Head(bash.stdin) = CmdLine("echo g2 > /app/goal")
                THEN [files EXCEPT !["/app/goal"] = Some("g2\n")]
                ELSE files
    /\ UNCHANGED <<xPc, xCmd, xStack, xResult, xTimedOut, xBefore, chatVars,
                   connVars, wireVars, fResult,
                   readerVars, promptVars>>

\* The foreground child ends by itself.
BashChildExit ==
    /\ bash.alive
    /\ bash.child
    /\ bash' = [bash EXCEPT !.child = FALSE, !.status = 0]
    /\ xUserStatus' = Some(0)
    /\ UNCHANGED <<fifos, q_stdout, q_stderr, xPc, xCmd, xStack, xResult,
                   xTimedOut, xBefore, chatVars, connVars,
                   wireVars, files, fResult,
                   readerVars, promptVars>>

\* The background job ends by itself.
BashJobExit ==
    /\ bash.bg
    /\ bash' = [bash EXCEPT !.bg = FALSE]
    /\ UNCHANGED <<fifos, q_stdout, q_stderr, xPc, xCmd, xStack, xResult,
                   xTimedOut, xBefore, xUserStatus, chatVars, connVars,
                   wireVars, files, fResult, readerVars, promptVars>>

\* _execute_shell, lines 393-411: the command lexes, the shell is ensured,
\* old children are killed and the command is written to bash.
ShellExecuteStart ==
    /\ xPc \in {"idle", "done", "raised", "fdone"}
    /\ EnsureReturns(bash)
    /\ \E text \in ShellTexts :
          /\ xCmd' = Some(ShellCommand(None, text))
          /\ IF _lex(text) # None
             THEN /\ _ensure_shell(bash).pid <= MaxSpawn
                  /\ bash' = _ensure_shell(bash)
                  /\ xBefore' = _ensure_shell(bash)
                  /\ q_stderr' = QueueAfter(bash, q_stderr)
             ELSE \E k \in KillOutcomes(_ensure_shell(bash)) :
                     /\ text \in {"exit 42", "sleep 100 & exit"}
                          => k.bash.pid < MaxSpawn
                     /\ k.bash.pid <= MaxSpawn
                     /\ bash' = [k.bash EXCEPT
                                   !.stdin = Append(@, CmdLine(text))]
                     /\ xBefore' = _ensure_shell(bash)
                     /\ q_stderr' = QueueAfter(bash, q_stderr) \o k.err
    /\ q_stdout' = QueueAfter(bash, q_stdout)
    /\ xPc' = "probe"
    /\ xStack' = <<>>
    /\ fifos' = <<>>
    /\ xResult' = None
    /\ xTimedOut' = FALSE
    /\ xUserStatus' = None
    /\ fResult' = None
    /\ UNCHANGED <<chatVars, connVars, wireVars, files,
                   readerVars, promptVars>>

\* The file commands the executor is handed.
FileCmds ==
    {FileWriteCommand(None, "/app/goal", "g1 "),
     FileWriteCommand(None, "/app/config.json", "{}"),
     FileReadCommand(None, "/app/goal"),
     FileReadCommand(None, "/app/system.md")}

\* _execute_file: params, with the envelope of _get_base, is built before
\* the file is read or written.
_execute_file(command, fs) ==
    LET params == _get_config(fs)
    IN [files |-> IF command.cls = "FileWriteCommand"
                  THEN [fs EXCEPT ![command.file] = Some(command.content)]
                  ELSE fs,
        result |->
          IF command.cls = "FileWriteCommand"
          THEN FileWriteResult(params, command, command.file, None,
                               Some(StrLen(command.content)))
          ELSE IF fs[command.file] = None
               THEN FileReadResult(params, command, command.file, None,
                                   Some("File not found"))
               ELSE FileReadResult(params, command, command.file,
                                   fs[command.file], None)]

\* execute of a file command, between two shell commands.
ShellExecuteFile ==
    /\ xPc \in {"idle", "done", "raised", "fdone"}
    /\ \E command \in FileCmds :
          LET r == _execute_file(command, files)
          IN /\ files' = r.files
             /\ fResult' = Some(r.result)
    /\ xPc' = "fdone"
    /\ UNCHANGED <<bash, fifos, q_stdout, q_stderr, xCmd, xStack, xResult,
                   xTimedOut, xBefore, xUserStatus, chatVars, connVars,
                   wireVars,
                   readerVars, promptVars>>

\* _get_prompt up to _wait_done: a FIFO is made and the probe is written to
\* bash; to a bash that has exited the write raises BrokenPipeError, which
\* leaves execute.
ShellProbe ==
    /\ xPc = "probe"
    /\ IF bash.alive
       THEN /\ bash' = [bash EXCEPT
                          !.stdin = Append(@, ProbeLine(Len(fifos) + 1))]
            /\ fifos' = Append(fifos, None)
            /\ xPc' = "ensure"
            /\ UNCHANGED xStack
       ELSE /\ xPc' = "raised"
            /\ fifos' = <<>>
            /\ xStack' = <<>>
            /\ UNCHANGED bash
    /\ UNCHANGED <<q_stdout, q_stderr, xCmd, xResult, xTimedOut, xBefore,
                   xUserStatus,
                   chatVars, connVars,
                   wireVars, files, fResult,
                   readerVars, promptVars>>

\* _wait_done, lines 332-338: a shell found gone is replaced and the prompt
\* of the new one is asked for.
ShellWaitEnsure ==
    /\ xPc = "ensure"
    /\ EnsureReturns(bash)
    /\ bash' = _ensure_shell(bash)
    /\ q_stdout' = QueueAfter(bash, q_stdout)
    /\ q_stderr' = QueueAfter(bash, q_stderr)
    /\ IF bash.alive
       THEN xPc' = "select" /\ UNCHANGED xStack
       ELSE xPc' = "probe" /\ xStack' = Append(xStack, "respawned")
    /\ UNCHANGED <<fifos, xCmd, xResult, xTimedOut, xBefore, xUserStatus,
                   chatVars, connVars,
                   wireVars, files, fResult,
                   readerVars, promptVars>>

\* _wait_done, line 350, the returns of the _wait_done calls that waited for
\* this one, and _execute_shell, lines 413-427.
ShellSelectReady ==
    /\ xPc = "select"
    /\ fifos[Len(fifos)] # None
    /\ LET str == Unwind(xStack, fifos[Len(fifos)][1])
           prompt_ == _parse_prompt(str)
           refused == _lex(xCmd[1].command)
       IN IF refused # None
          THEN /\ xResult' = Some(_dummy_result(_get_config(files),
                                                xCmd[1].command,
                                                refused[1].exit_code, "",
                                                refused[1].stderr, str))
               /\ UNCHANGED <<q_stdout, q_stderr>>
          ELSE /\ xResult' = Some(ShellResult(_get_config(files), xCmd[1],
                                              prompt_, q_stdout, q_stderr,
                                              prompt_.exit_code))
               /\ q_stdout' = <<>>
               /\ q_stderr' = <<>>
    /\ fifos' = <<>>
    /\ xStack' = <<>>
    /\ xPc' = "done"
    /\ UNCHANGED <<bash, xCmd, xTimedOut, xBefore, xUserStatus, chatVars,
                   connVars, wireVars, files, fResult, readerVars, promptVars>>

\* _wait_done, lines 342-348: the select timed out; the children are killed
\* and _dummy_result ensures the shell and asks for its prompt.
ShellSelectTimeout ==
    /\ xPc = "select"
    /\ fifos[Len(fifos)] = None
    /\ ~bash.alive \/ bash.child \/ Len(xStack) < MaxDepth
    /\ EnsureReturns(bash)
    /\ \E k \in KillOutcomes(bash) :
          /\ bash' = _ensure_shell(k.bash)
          /\ q_stderr' = QueueAfter(bash, q_stderr \o k.err)
          /\ xUserStatus' = IF bash.alive /\ bash.child
                            THEN Some(k.bash.status)
                            ELSE xUserStatus
    /\ q_stdout' = QueueAfter(bash, q_stdout)
    /\ xStack' = Append(xStack, "timeout")
    /\ xTimedOut' = TRUE
    /\ xPc' = "probe"
    /\ UNCHANGED <<fifos, xCmd, xResult, xBefore, chatVars, connVars,
                   wireVars, files, fResult,
                   readerVars, promptVars>>

\* run: SIGINT, SIGTERM or the end of the interpreter: Client.cleanup shuts
\* the socket down and the process exits.  Nothing is done to the shell.
ClientTeardown ==
    /\ xPc # "exited"
    /\ xPc' = "exited"
    /\ UNCHANGED <<bash, fifos, q_stdout, q_stderr, xCmd, xStack, xResult,
                   xTimedOut, xBefore, xUserStatus, chatVars, connVars,
                   wireVars, files, fResult, readerVars, promptVars>>

\* bash reads the end of file of its stdin, which the client's exit closed,
\* and exits.
BashEndOfInput ==
    /\ xPc = "exited"
    /\ bash.alive /\ ~bash.child /\ ~bash.hung
    /\ bash.stdin = <<>>
    /\ bash' = [bash EXCEPT !.alive = FALSE]
    /\ UNCHANGED <<fifos, q_stdout, q_stderr, xPc, xCmd, xStack, xResult,
                   xTimedOut, xBefore, xUserStatus, chatVars, connVars,
                   wireVars, files, fResult, readerVars, promptVars>>

ShellNext ==
    \/ BashStep
    \/ BashChildExit
    \/ BashJobExit
    \/ ShellExecuteStart
    \/ ShellExecuteFile
    \/ ShellProbe
    \/ ShellWaitEnsure
    \/ ShellSelectReady
    \/ ShellSelectTimeout
    \/ ClientTeardown
    \/ BashEndOfInput

SpecShell == Init /\ [][ShellNext]_vars

\* C9 - Timeout result: the result of a shell command one of whose prompt
\* probes timed out has exit code -2 and a stderr line "Command timed out"
\* (with or without the prefix _dummy_out puts before it).
TimeoutResult ==
    (xPc = "done" /\ xTimedOut /\ _lex(xCmd[1].command) = None)
      => /\ xResult[1].exit_code = -2
         /\ \E n \in 1..Len(xResult[1].stderr) :
               xResult[1].stderr[n][2] \in
                 {"Command timed out", "/bin/bash: Command timed out"}

\* C10 - A user command cannot kill the outer shell: once "exit 42" has
\* been executed, by a result or by an exception, the bash that was given
\* the command is alive, in the same directory and with the same variables.
OuterShellSurvives ==
    (xPc \in {"done", "raised"} /\ xCmd[1].command = "exit 42")
      => /\ bash.alive
         /\ bash.pid = xBefore.pid
         /\ bash.cwd = xBefore.cwd
         /\ bash.X = xBefore.X

\* C11 - Exit codes are faithful: the exit_code of a returned ShellResult
\* is its prompt's exit_code, and both are the $? the user command left.
ExitCodeFaithful ==
    (xPc = "done" /\ _lex(xCmd[1].command) = None)
      => /\ xResult[1].exit_code = xResult[1].prompt.exit_code
         /\ xUserStatus = Some(xResult[1].exit_code)

\* The directory a command leaves bash in.
CwdAfter(text, cwd) == IF text = "cd /tmp" THEN "/tmp" ELSE cwd

\* C12 - Shell state persists: absent a respawn, the prompt of a Result
\* reports the directory the earlier commands left (changed only by this
\* command's own cd), a pwd prints the directory the command was handed, and
\* the next command is handed a bash in the directory the last prompt
\* reported.
CwdPersists ==
    [][/\ (xPc = "select" /\ xPc' = "done" /\ bash.pid = xBefore.pid)
            => xResult'[1].prompt.cwd = CwdAfter(xCmd[1].command, xBefore.cwd)
       /\ (bash.alive /\ bash.stdin # <<>> /\ bash'.stdin = Tail(bash.stdin)
             /\ Head(bash.stdin) = CmdLine("pwd") /\ bash.pid = xBefore.pid)
            => q_stdout' = Append(q_stdout, OutputLine(0, xBefore.cwd))
       /\ (xPc = "done" /\ xPc' = "probe" /\ xBefore'.pid = xBefore.pid
             /\ bash.pid = xBefore.pid)
            => xBefore'.cwd = xResult[1].prompt.cwd]_vars

\* pwd ran after an earlier cd /tmp, in the bash the client started with.
WitnessCwdPersists ==
    /\ xPc = "done"
    /\ xCmd[1].command = "pwd"
    /\ bash.pid = 1
    /\ xResult[1].prompt.cwd = "/tmp"
    /\ xResult[1].stdout # <<>>

\* C20 - Executor liveness: the step in which the wait for the prompt
\* times out cuts off the child of the shell, and replaces a shell that
\* hangs in a builtin loop with no child by a new one.
TimeoutCutsOffOrRespawns ==
    [][(xPc = "select" /\ xPc' = "probe" /\ bash.alive)
         => /\ ~bash'.child
            /\ (bash.hung /\ ~bash.child)
                 => (bash'.pid # bash.pid /\ ~bash'.hung)]_vars

\* C22 - BaseResult snapshot at the moment of return: the system, goal and
\* config of the Result that execute returns are the three files as the
\* command has left them, for a file command and for a shell command.
SnapshotAfterEffect ==
    [][/\ (xPc' = "fdone" /\ fResult' # None)
            => BaseOf(fResult'[1]) = _get_config(files')
       /\ (xPc = "select" /\ xPc' = "done")
            => BaseOf(xResult'[1]) = _get_config(files')]_vars

\* The command texts on the stdin of bash.
StdinTexts ==
    {bash.stdin[n].text :
       n \in {i \in 1..Len(bash.stdin) : bash.stdin[i].kind = "cmd"}}

\* C24 - Parse-error gating: a text that bashlex does not parse is never on
\* the stdin of bash, and the Result of its command is a synthetic one for
\* that text with exit code 2, no stdout and the parser's message as its
\* only stderr line (behind the prefix _dummy_out writes), returned by a
\* shell that is alive.
ParseErrorGated ==
    /\ \A text \in StdinTexts : ParsingError(text) = None
    /\ (xPc = "done" /\ ParsingError(xCmd[1].command) # None)
         => /\ xResult[1].exit_code = 2
            /\ xResult[1].command.command = xCmd[1].command
            /\ xResult[1].stdout = <<>>
            /\ Len(xResult[1].stderr) = 1
            /\ xResult[1].stderr[1][2]
                 = "/bin/bash: " \o ParsingError(xCmd[1].command)[1]
            /\ bash.alive

\* The Result of a text with an unmatched quote has been returned.
WitnessParseErrorGated ==
    /\ xPc = "done" /\ xCmd[1].command = "echo 'x"
    /\ xResult[1].exit_code = 2 /\ bash.alive

\* The command has a command word that names an interactive program.
IsInteractive(text) ==
    _get_commands(text) \cap {"vim", "nano", "less", "more"} # {}

\* The line is str followed by the name of one interactive program.
StartsWithName(line, str) ==
    \E name \in {"vim", "nano", "less", "more"} : line = str \o name

NoChildrenAtWrite ==
    [][(/\ xPc \in {"idle", "done", "raised", "fdone"}
        /\ xPc' \notin {xPc, "fdone", "exited"}
        /\ _lex(xCmd'[1].command) = None)
          => /\ xPc' = "probe"
             /\ bash'.alive /\ ~bash'.child /\ ~bash'.bg
             /\ bash'.stdin # <<>>
             /\ bash'.stdin[Len(bash'.stdin)] = CmdLine(xCmd'[1].command)]_vars

\* A command that found a background job of the shell has returned its
\* Result.
WitnessNoChildrenAtWrite ==
    /\ xPc = "done" /\ _lex(xCmd[1].command) = None
    /\ xBefore.alive /\ xBefore.bg
    /\ ~bash.bg

\* C31 - Respawn cleans up first: when _wait_done is about to ensure a
\* shell that has exited, the respawn can go ahead: what the old shell left
\* behind does not keep _ensure_shell from returning.
RespawnDoesNotBlock ==
    (xPc = "ensure" /\ ~bash.alive) => ENABLED ShellWaitEnsure

\* C32 - ensure_shell is idempotent: the _ensure_shell of _wait_done
\* leaves a running shell and its queues as they are; for a shell that has
\* exited it leaves a new running shell with empty queues; and a second
\* call right after it would change nothing.
EnsureShellIdempotent ==
    [][(xPc = "ensure" /\ xPc' \notin {"ensure", "exited"})
         => /\ bash.alive
                 => /\ bash' = bash
                    /\ q_stdout' = q_stdout /\ q_stderr' = q_stderr
            /\ ~bash.alive
                 => /\ bash'.alive /\ bash'.pid = bash.pid + 1
                    /\ q_stdout' = <<>> /\ q_stderr' = <<>>
            /\ _ensure_shell(bash') = bash'
            /\ QueueAfter(bash', q_stdout') = q_stdout'
            /\ QueueAfter(bash', q_stderr') = q_stderr']_vars

\* _wait_done has found the shell gone and reopened it.
WitnessEnsureShellIdempotent ==
    /\ xPc = "probe"
    /\ xStack # <<>> /\ xStack[Len(xStack)] = "respawned"
    /\ bash.alive /\ bash.pid > 1

\* C33 - Synthetic exit codes identify their cause: a ShellResult with
\* exit code -2 is the result of a command one of whose probes timed out,
\* and one with exit code -3 the refusal of an interactive command.
SyntheticCodesIdentifyCause ==
    xPc = "done"
      => /\ xResult[1].exit_code = -2 => xTimedOut
         /\ xResult[1].exit_code = -3 => IsInteractive(xCmd[1].command)

\* C34 - Teardown kills the shell: once the client has shut down, neither
\* the shell nor a foreground or background child of it is alive.
TeardownKillsShell ==
    xPc = "exited" => (~bash.alive /\ ~bash.child /\ ~bash.bg)

(***************************************************************************)
(* SpecReaders: the reader threads of the shell and the drains of the     *)
(* main thread, statement by statement.  The timestamp of a line is the   *)
(* number of the put that made it.                                        *)
(***************************************************************************)
LineTexts == {"hi", "No such file"}

\* The command the shell is running, or has run last, writes a line to its
\* stdout or stderr.  The commands are numbered as their Results will be.
BashWrites ==
    /\ dPc = "run"
    /\ Len(returned) < MaxResults
    /\ Len(piped) + qClock < MaxLines
    /\ \E text \in LineTexts, stream \in {"stdout", "stderr"} :
          piped' = Append(piped, [stream |-> stream, text |-> text,
                                  cmd |-> Len(returned) + 1])
    /\ UNCHANGED <<q_stdout, q_stderr, qClock, owner, leftover, dPc, dOut,
                   dErr, returned, bash, fifos, xPc, xCmd, xStack, xResult,
                   xTimedOut, xBefore, xUserStatus, files, fResult, chatVars,
                   connVars, wireVars, promptVars>>

\* _enqueue_output: a reader thread reads the next line of its pipe and puts
\* it, stamped, on its queue.
ReaderPut ==
    /\ \E n \in 1..Len(piped) :
          /\ \A k \in 1..(n - 1) : piped[k].stream # piped[n].stream
          /\ piped' = SubSeq(piped, 1, n - 1)
                      \o SubSeq(piped, n + 1, Len(piped))
          /\ owner' = Append(owner, piped[n].cmd)
          /\ IF piped[n].stream = "stdout"
             THEN /\ q_stdout' = Append(q_stdout,
                                        OutputLine(qClock + 1, piped[n].text))
                  /\ UNCHANGED q_stderr
             ELSE /\ q_stderr' = Append(q_stderr,
                                        OutputLine(qClock + 1, piped[n].text))
                  /\ UNCHANGED q_stdout
    /\ qClock' = qClock + 1
    /\ UNCHANGED <<leftover, dPc, dOut, dErr, returned, bash, fifos, xPc, xCmd,
                   xStack, xResult, xTimedOut, xBefore, xUserStatus, files,
                   fResult, chatVars, connVars, wireVars, promptVars>>

\* _get_stdout, line 148: stdout = list(self._q_stdout.queue).
GetStdoutList ==
    /\ dPc = "run"
    /\ Len(returned) < MaxResults
    /\ dOut' = q_stdout
    /\ dPc' = "stdout_listed"
    /\ UNCHANGED <<piped, owner, leftover, q_stdout, q_stderr, qClock, dErr,
                   returned, bash, fifos, xPc, xCmd, xStack, xResult,
                   xTimedOut, xBefore, xUserStatus, files, fResult, chatVars,
                   connVars, wireVars, promptVars>>

\* Variant of GetStdoutClear: the queue is left as it is.
GetStdoutKeep ==
    /\ dPc = "stdout_listed"
    /\ dPc' = "stdout_cleared"
    /\ UNCHANGED <<piped, owner, leftover, q_stdout, q_stderr, qClock, dOut,
                   dErr, returned, bash, fifos, xPc, xCmd, xStack, xResult,
                   xTimedOut, xBefore, xUserStatus, files, fResult, chatVars,
                   connVars, wireVars, promptVars>>

\* _get_stdout, line 149: self._q_stdout.queue.clear().
GetStdoutClear ==
    /\ dPc = "stdout_listed"
    /\ q_stdout' = <<>>
    /\ dPc' = "stdout_cleared"
    /\ UNCHANGED <<piped, owner, leftover, q_stderr, qClock, dOut, dErr,
                   returned, bash, fifos, xPc, xCmd, xStack, xResult,
                   xTimedOut, xBefore, xUserStatus, files, fResult, chatVars,
                   connVars, wireVars, promptVars>>

\* _get_stderr, line 154: stderr = list(self._q_stderr.queue).
GetStderrList ==
    /\ dPc = "stdout_cleared"
    /\ dErr' = q_stderr
    /\ dPc' = "stderr_listed"
    /\ UNCHANGED <<piped, owner, leftover, q_stdout, q_stderr, qClock, dOut,
                   returned, bash, fifos, xPc, xCmd, xStack, xResult,
                   xTimedOut, xBefore, xUserStatus, files, fResult, chatVars,
                   connVars, wireVars, promptVars>>

\* _get_stderr, line 155, and _execute_shell, lines 418-427: the queue is
\* cleared and the Result is returned with the two lists.
GetStderrClear ==
    /\ dPc = "stderr_listed"
    /\ q_stderr' = <<>>
    /\ returned' = Append(returned, [stdout |-> dOut, stderr |-> dErr])
    /\ dPc' = "run"
    /\ UNCHANGED <<piped, owner, leftover, q_stdout, qClock, dOut, dErr, bash,
                   fifos, xPc, xCmd, xStack, xResult, xTimedOut, xBefore,
                   xUserStatus, files, fResult, chatVars, connVars, wireVars,
                   promptVars>>

\* _wait_shell: the reader threads are joined, what the queues hold is
\* logged as leftover, and _open_shell makes new queues.
WaitShellDrain ==
    /\ dPc = "run"
    /\ piped = <<>>
    /\ q_stdout # <<>> \/ q_stderr # <<>>
    /\ leftover' = leftover \o q_stdout \o q_stderr
    /\ q_stdout' = <<>>
    /\ q_stderr' = <<>>
    /\ UNCHANGED <<piped, owner, qClock, dPc, dOut, dErr, returned, bash,
                   fifos, xPc, xCmd, xStack, xResult, xTimedOut, xBefore,
                   xUserStatus, files, fResult, chatVars, connVars, wireVars,
                   promptVars>>

ReadersNext ==
    \/ BashWrites
    \/ ReaderPut
    \/ GetStdoutList
    \/ GetStdoutClear
    \/ GetStderrList
    \/ GetStderrClear
    \/ WaitShellDrain

SpecReaders == Init /\ [][ReadersNext]_vars

\* The lines of the Results returned so far, in order.
RECURSIVE LinesOf(_)
LinesOf(results) ==
    IF results = <<>>
    THEN <<>>
    ELSE Head(results).stdout \o Head(results).stderr \o LinesOf(Tail(results))

\* C27 - No output line is observed twice: whatever the interleaving of the
\* reader threads' puts with the statements of the drains, no line is in
\* two Results, or twice in one.
NoLineTwice ==
    \A i, j \in 1..Len(LinesOf(returned)) :
       LinesOf(returned)[i] = LinesOf(returned)[j] => i = j

\* Two Results have returned lines, and one line was put between the list
\* and the clear of a drain: it is in no Result and in no queue.
WitnessNoLineTwice ==
    /\ Len(returned) = 2
    /\ returned[1].stdout \o returned[1].stderr # <<>>
    /\ returned[2].stdout \o returned[2].stderr # <<>>
    /\ dPc = "run"
    /\ Len(LinesOf(returned)) + Len(leftover) + Len(q_stdout) + Len(q_stderr)
         < qClock

\* The lines that are somewhere: in a Result, in the leftover log, in a
\* queue, or in the list a drain in progress has taken.
Kept ==
    LinesOf(returned) \o leftover \o q_stdout \o q_stderr
      \o (IF dPc = "run" THEN <<>> ELSE dOut)
      \o (IF dPc = "stderr_listed" THEN dErr ELSE <<>>)

\* C37 - No output line is lost: whatever the interleaving of the reader
\* threads' puts with the statements of the drains, every line put is in a
\* Result or in the leftover log, or still on its way there.
NoLineLost ==
    \A id \in 1..qClock : \E n \in 1..Len(Kept) : Kept[n][1] = id

\* C38 - Output attribution: whatever the scheduling of the reader threads
\* relative to the drains, a line in the k-th Result was written by the
\* k-th command.
OutputAttributed ==
    \A k \in 1..Len(returned) :
       LET lines == returned[k].stdout \o returned[k].stderr
       IN \A n \in 1..Len(lines) : owner[lines[n][1]] = k

(***************************************************************************)
(* SpecPrompt: _parse_prompt on the text of a prompt.  A text is the      *)
(* sequence of its characters.                                            *)
(***************************************************************************)
DigitChars == <<"0", "1", "2", "3", "4", "5", "6", "7", "8", "9">>

IsDigit(ch) == \E k \in 1..Len(DigitChars) : DigitChars[k] = ch

\* str(c), for c >= 0.
RECURSIVE Decimal(_)
Decimal(c) ==
    IF c < 10
    THEN <<DigitChars[c + 1]>>
    ELSE Decimal(c \div 10) \o <<DigitChars[(c % 10) + 1]>>

\* int(text), for a text of digits.
RECURSIVE int(_)
int(text) ==
    IF text = <<>>
    THEN 0
    ELSE 10 * int(SubSeq(text, 1, Len(text) - 1))
           + ((CHOOSE k \in 1..Len(DigitChars) :
                 DigitChars[k] = text[Len(text)]) - 1)

\* "${PS1@P}" for PS1 = '$? \u@\h:\w \$ ': the text "c u@h:cwd t ".
PromptText(in) ==
    Decimal(in.exit_code) \o <<" ">> \o in.user \o <<"@">> \o in.host
      \o <<":">> \o in.cwd \o <<" ", in.usertype, " ">>

\* The ways the pattern of _parse_prompt matches a text: exit_code is
\* text[1..d], user text[d+2..a-1], host text[a+1..c-1] and cwd
\* text[c+1..Len-3].  No character of the model is a newline.
Matches(text) ==
    LET n == Len(text)
    IN {m \in (1..n) \X (1..n) \X (1..n) :
          /\ \A k \in 1..m[1] : IsDigit(text[k])
          /\ m[1] + 1 <= n /\ text[m[1] + 1] = " "
          /\ m[1] + 2 < m[2] /\ text[m[2]] = "@"
          /\ m[2] + 1 < m[3] /\ text[m[3]] = ":"
          /\ m[3] + 1 <= n - 3
          /\ text[n - 2] = " "
          /\ text[n - 1] \in {"$", "#"}
          /\ text[n] = " "}

\* re.match: each group is greedy, the earlier group first.
re_match(text) ==
    LET M == Matches(text)
        d == CHOOSE x \in {m[1] : m \in M} :
                \A m \in M : m[1] <= x
        Md == {m \in M : m[1] = d}
        a == CHOOSE x \in {m[2] : m \in Md} : \A m \in Md : m[2] <= x
        Ma == {m \in Md : m[2] = a}
        c == CHOOSE x \in {m[3] : m \in Ma} : \A m \in Ma : m[3] <= x
    IN IF M = {}
       THEN None
       ELSE Some([exit_code |-> SubSeq(text, 1, d),
                  user |-> SubSeq(text, d + 2, a - 1),
                  host |-> SubSeq(text, a + 1, c - 1),
                  cwd |-> SubSeq(text, c + 1, Len(text) - 3),
                  usertype |-> text[Len(text) - 1]])

\* _parse_prompt on a text: the Prompt, or the ValueError it raises.
ParsePromptText(text) ==
    LET match == re_match(text)
    IN IF match = None
       THEN [cls |-> "ValueError"]
       ELSE [cls |-> "Prompt",
             prompt |-> text,
             exit_code |-> int(match[1].exit_code),
             user |-> match[1].user,
             host |-> match[1].host,
             cwd |-> match[1].cwd,
             usertype |-> USERTYPES(match[1].usertype)]

\* The fields prompts are made of: exit codes of one, two and three digits,
\* names and directories with and without the separators of the pattern.
PromptInputs ==
    [exit_code : {0, 7, 42, 255},
     user : {<<"u">>, <<"r", "t">>},
     host : {<<"h">>, <<"h", "2">>},
     cwd : {<<"/">>, <<"/", "a">>, <<"/", "a", ":", "b">>,
            <<"/", "a", " ", "b">>},
     usertype : {"$", "#"}]

PromptInit ==
    /\ llama = LlamaChatInit
    /\ prompt = None
    /\ removed = 0
    /\ dropped = {}
    /\ chatPc = "idle"
    /\ ConnInit
    /\ WireInit
    /\ ShellInit
    /\ pIn \in {Some(in) : in \in PromptInputs}
    /\ pOut = None

\* _parse_prompt(prompt).
PromptParsed ==
    /\ pIn # None
    /\ pOut = None
    /\ pOut' = Some(ParsePromptText(PromptText(pIn[1])))
    /\ UNCHANGED <<pIn, chatVars, connVars, wireVars, bash, fifos, q_stdout,
                   q_stderr, xPc, xCmd, xStack, xResult, xTimedOut, xBefore,
                   xUserStatus, files, fResult, readerVars>>

PromptNext == PromptParsed

SpecPrompt == PromptInit /\ [][PromptNext]_vars

\* C28 - Prompt parse round-trip: parsing the text "c u@h:cwd t " gives a
\* Prompt with exit_code c, user u, host h, cwd cwd and usertype user for
\* $, root for #.
PromptRoundTrip ==
    pOut # None
      => /\ pOut[1].cls = "Prompt"
         /\ pOut[1].exit_code = pIn[1].exit_code
         /\ pOut[1].user = pIn[1].user
         /\ pOut[1].host = pIn[1].host
         /\ pOut[1].cwd = pIn[1].cwd
         /\ pOut[1].usertype
              = (IF pIn[1].usertype = "$" THEN "user" ELSE "root")

(***************************************************************************)
(* SpecChat: the compactor on its own.  The histories drawn are those a    *)
(* sequence of appended Results leaves.                                    *)
(***************************************************************************)
ResultPool ==
    { ShellResult(BaseMissing, ShellCmd, PromptOf(0), <<>>, <<>>, 0),
      ShellResult(BasePresent, ShellCmd, PromptOf(1), <<>>,
                  <<OutputLine(0, "err")>>, 1),
      ShellResult(BaseMissing, ShellCmd, PromptOf(0),
                  <<OutputLine(0, "huge")>>, <<>>, 0),
      FileReadResult(BaseMissing, ReadCmd, "f", Some("data"), None),
      FileReadResult(BasePresent, ReadCmd, "f", None, Some("File not found")),
      FileWriteResult(BaseEmpty, WriteCmd, "f", None, Some(5)) }

ChatInit ==
    /\ llama \in {append_commands(LlamaChatInit, h) :
                    h \in SeqsUpTo(ResultPool, MaxHist) \ {<<>>}}
    /\ prompt = None
    /\ removed = 0
    /\ dropped = {}
    /\ chatPc = "idle"
    /\ ConnInit
    /\ WireInit
    /\ ShellInit
    /\ PromptIdle

\* get_commands up to the call of the generator.
ChatGetPrompt ==
    /\ chatPc = "idle"
    /\ LET r == _get_prompt(llama)
       IN /\ llama' = r.self
          /\ prompt' = r.prompt
          /\ removed' = r.removed
          /\ dropped' = dropped \cup {llama.history[n] : n \in 1..r.removed}
          /\ chatPc' = IF r.prompt = None THEN "failed" ELSE "prompted"
    /\ UNCHANGED <<connVars, wireVars, shellVars>>

\* The batch of the turn is appended (an empty one when the turn is skipped).
ChatAppend ==
    /\ chatPc # "idle"
    /\ \E results \in SeqsUpTo(ResultPool, MaxBatch) :
          /\ chatPc = "failed" => results = <<>>
          /\ Len(llama.history) + Len(results) <= MaxHist
          /\ llama' = append_commands(llama, results)
    /\ prompt' = None
    /\ removed' = 0
    /\ chatPc' = "appended"
    /\ UNCHANGED <<dropped, connVars, wireVars, shellVars>>

\* The dispatch loop comes round to get_commands.
ChatLoop ==
    /\ chatPc = "appended"
    /\ chatPc' = "idle"
    /\ UNCHANGED <<llama, prompt, removed, dropped, connVars, wireVars,
                   shellVars>>

ChatNext == ChatGetPrompt \/ ChatAppend \/ ChatLoop

SpecChat == ChatInit /\ [][ChatNext]_vars

Budget == n_ctx - LLAMA_TOKEN_BUFFER

\* C4 - Compactor monotonic drop: the prompt a call returns is [system]
\* followed by the flattening of a suffix of the history the call found, the
\* stored history is that suffix, and a history whose full prompt fits loses
\* no entry.
CompactorMonotonicDrop ==
    [][(chatPc = "idle" /\ chatPc' # "idle") =>
         \E k \in 0..Len(llama.history) :
            /\ llama'.history = Suffix(llama.history, k)
            /\ prompt' # None =>
                 prompt'[1] = <<system(llama)>>
                                \o _from_commands(Suffix(llama.history, k))
            /\ tokenize(<<system(llama)>> \o _from_commands(llama.history))
                 <= Budget => k = 0]_vars

WitnessMonotonicDrop ==
    chatPc = "prompted" /\ removed = 1 /\ Len(llama.history) = 2

\* C5 - Budget fit: a returned prompt counts at most n_ctx - 512 tokens and
\* every longer suffix of the history the call found exceeds the budget.
BudgetFit ==
    [][(chatPc = "idle" /\ chatPc' # "idle" /\ prompt' # None) =>
         /\ tokenize(prompt'[1]) <= n_ctx - 512
         /\ \A j \in 0..Len(llama.history) :
              Len(Suffix(llama.history, j)) > Len(llama'.history) =>
                tokenize(<<system(llama)>>
                           \o _from_commands(Suffix(llama.history, j)))
                  > n_ctx - 512]_vars

WitnessBudgetFit ==
    /\ chatPc = "prompted"
    /\ removed = 2
    /\ Len(llama.history) = 1

\* The last entry of a history.
Last(h) == h[Len(h)]

\* C23 - Dynamic reconfiguration: after a batch is appended, config, mutable
\* system prompt and goal are those of the last Result of the batch, the
\* default standing in for a field that is null or empty, whatever the
\* earlier Results carried.
LastResultConfigures ==
    [][(chatPc' = "appended" /\ Len(llama'.history) > Len(llama.history))
         => LET last == Last(llama'.history)
            IN /\ llama'.config = IF last.config = None
                                  THEN LlamaClientConfig
                                  ELSE last.config[1]
               /\ llama'.system_mutable =
                    Some(IF last.system = None \/ last.system = Some("")
                         THEN DEFAULT_SYSTEM_MUTABLE ELSE last.system[1])
               /\ llama'.goal =
                    IF last.goal = None \/ last.goal = Some("")
                    THEN LLAMA_DEFAULT_GOAL ELSE last.goal[1]]_vars

\* A batch of two was appended whose first Result carries all three values
\* and whose last carries none.
WitnessLastResultConfigures ==
    /\ chatPc = "appended"
    /\ Len(llama.history) >= 2
    /\ BaseOf(llama.history[Len(llama.history) - 1]) = BasePresent
    /\ BaseOf(Last(llama.history)) = BaseMissing
    /\ llama.goal = LLAMA_DEFAULT_GOAL

\* C23 as stated: the default stands in for a null field only.
LastResultConfiguresNullOnly ==
    [][(chatPc' = "appended" /\ Len(llama'.history) > Len(llama.history))
         => LET last == Last(llama'.history)
            IN /\ llama'.system_mutable =
                    Some(IF last.system = None
                         THEN DEFAULT_SYSTEM_MUTABLE ELSE last.system[1])
               /\ llama'.goal =
                    IF last.goal = None
                    THEN LLAMA_DEFAULT_GOAL ELSE last.goal[1]]_vars
\* C30 - Empty history: when _get_prompt has left the history empty, or
\* found it empty, and the system message alone fits n_ctx - TOKEN_BUFFER,
\* the prompt is [system]; the call fails only when [system] does not fit.
EmptyHistoryGivesSystem ==
    (/\ chatPc \in {"prompted", "failed"}
     /\ llama.history = <<>>
     /\ tokenize(<<system(llama)>>) <= n_ctx - LLAMA_TOKEN_BUFFER)
      => prompt = Some(<<system(llama)>>)

\* C39 - Truncation is permanent: the stored history changes only by
\* _get_prompt removing entries from its front or by a batch appended at its
\* end, and the prompt of every generation is built from the stored history,
\* so that an entry dropped earlier stays out of it even when it would fit.
TruncationPermanent ==
    [][/\ (chatPc = "idle" /\ chatPc' # "idle")
            => /\ \E k \in 0..Len(llama.history) :
                     llama'.history = Suffix(llama.history, k)
               /\ prompt' # None
                    => prompt'[1] = <<system(llama')>>
                                      \o _from_commands(llama'.history)
       /\ chatPc # "idle"
            => \E batch \in SeqsUpTo(ResultPool, MaxBatch) :
                  llama'.history = llama.history \o batch]_vars

\* A generation that dropped nothing, although an entry dropped by an
\* earlier generation would fit in front of its prompt.
WitnessTruncationPermanent ==
    /\ chatPc = "prompted"
    /\ removed = 0
    /\ \E e \in dropped :
          tokenize(<<system(llama)>> \o _from_commands(<<e>> \o llama.history))
            <= n_ctx - LLAMA_TOKEN_BUFFER

====
